---- MODULE Spec2Model ----
(***************************************************************************)
(* Model of the analytics aggregation and scoring engine of the Discord   *)
(* bot: the relational store (PostgreSQL rows, row locks held until the   *)
(* end of the transaction), the event handlers that write it, and the     *)
(* pure scoring functions.                                                 *)
(*                                                                         *)
(* Floating point columns are modelled by exact rationals: the average    *)
(* message length as a reduced fraction <<num, den>>, the engagement      *)
(* score in tenths, the toxicity level as an integer number of            *)
(* 1/TOX_ONE.                                                              *)
(***************************************************************************)
EXTENDS Integers, Sequences, FiniteSets, TLC

\* ---------------------------------------------------------------- bounds
\* number of event handler slots (message / reaction events in flight)
MaxTasks == 2
\* number of events that arrive in a run
MaxEvents == 3
\* last calendar day of the model (days are 1..MaxDay)
MaxDay == 2
\* number of days of a calendar month (the engagement model spans two months)
MonthLen == 2
\* number of process_message_engagement calls in a run
MaxEngCalls == 2
\* number of message and reaction events that arrive between those calls
MaxEngEvents == 1
\* number of analyze_and_update calls that open a session in a run
MaxUpdates == 4
\* number of AI_EXECUTOR threads that are modelled (the pool has 4)
MaxWorkers == 2
\* number of rebuild_ai_for_user calls in a run
MaxRebuilds == 2
\* number of stored messages in the content-signal model
MaxSigEvents == 2
\* number of steps of TickSeconds that the clock makes in the alert model
MaxTicks == 6

\* ------------------------------------------------------------ data domains
\* user ids of the single guild that is modelled
Users == {1, 2}
\* the text that the !insight command hands to analyze_and_update
InsightText == "Analyse contextuelle automatique"
LongText == "bon alors la vraiment merde je ne sais plus quoi faire de ce code ici"
\* contents of the messages that arrive ("" is an attachment-only message)
MsgTexts == {"", "con", "merci", "python", "gros con", LongText}
\* the contents used by the activity model, of lengths 0 and 3
ActTexts == {"", "con"}
\* the contents used by the content-signal model and by the alert model
SigTexts == {"", "python", LongText}
AlertTexts == {"gros con", "python"}
Channels == {"general"}
Tasks == 1..MaxTasks
Days == 1..MaxDay
EngDays == 1..(2 * MonthLen)
\* the mentions of a message (message.mentions, bots filtered out)
MentionLists == {<<>>, <<1>>, <<2>>, <<1, 2>>, <<2, 2>>}

VARIABLES
    \* committed rows of table users (create_db.py User), as the set of user ids
    users,
    \* committed rows of table user_activity: [user -> row], domain = rows that exist
    activity,
    \* committed rows of table user_message_daily: [<<user, day>> -> count]
    daily,
    \* committed rows of table messages, as a bag: [<<user, content, timestamp>> -> number of rows]
    messages,
    \* committed row of table guilds for the guild (TRUE when it exists)
    guildRow,
    \* _GUILD_CACHE / _USER_CACHE of cptMessageUtilisateur.py: the keys still fresh
    guildFresh,
    userFresh,
    \* the handlers of message and reaction events, one record per slot
    tasks,
    \* number of events that have arrived
    nEvents,
    \* current UTC day, datetime.now(UTC).date()
    today,
    \* history: per user, number of committed message events / the sum of their lengths
    committedMsgs,
    sumLen,
    \* history: per user, committed reactions given / received
    committedGiven,
    committedRecv,
    \* history: per <<user, day>>, number of committed daily increments
    committedIncr,
    \* committed rows of table user_engagement: [user -> row]
    engagement,
    \* the running process_message_engagement call (its session and locals)
    engTask,
    \* number of process_message_engagement calls so far
    nEng,
    \* history: the values read and written by the last call that committed
    engDone,
    \* committed rows of table user_ai_analysis: [user -> row]
    ai,
    \* the analyze_and_update calls: slot 0 is the call made by the thread that
    \* runs rebuild_ai_for_user, slots 1..MaxWorkers are AI_EXECUTOR threads
    \* together with the coroutine that awaits them
    aiTasks,
    \* the running rebuild_ai_for_user call (its session and locals; dirty: one
    \* of its analyze_and_update calls failed, or another call wrote the row)
    rebuild,
    \* number of analyze_and_update calls / rebuild_ai_for_user calls so far
    nUpdates,
    nRebuilds,
    \* USER_COOLDOWN of main.py: [user -> instant of the last dispatch]
    userCooldown,
    \* history: what the last committed analyze_and_update read and stored
    aiDone,
    \* history: what the last committed rebuild_ai_for_user stored
    rebuildDone,
    \* committed rows of table monitored_users: [user -> row]
    monitored,
    \* the clock, in seconds
    clock,
    \* the notification sink: [user -> instants of the alerts sent]
    notifications,
    \* history: the branch taken by the last check_toxicity_and_alert
    checkDone,
    \* history: the last MonitorSelect.callback that committed: the member,
    \* whether the member was watched before it (had) and whether an alert of
    \* the member was less than two hours old (cooling)
    watchDone,
    \* what the last !rank command computed and displayed
    rankDone,
    \* what the last get_user_snapshot call read and returned
    snapDone,
    \* the last sentiment classification of analyze_text: [valid, mode, text,
    \* score (in hundredths), label]
    sentDone,
    \* history: [user -> the creation instants of the messages of the user for
    \* which on_message has dispatched analyze_and_update]
    dispatched,
    \* the voice channel each member is connected to ("none": not connected),
    \* as the gateway reports it in before / after of on_voice_state_update
    voiceState,
    \* active_sessions of cptVoiceUtilisateur.py: [user -> [start_time,
    \* channel_name]], domain = the keys of the dict
    activeSessions,
    \* committed rows of table user_voice: [user -> row]
    voice,
    \* history: the number of voice events handled so far, the member of the
    \* last one and whether a database statement of its handler failed
    voiceDone,
    \* COMMAND_DEDUPE of main.py: the message ids in order of insertion
    dedupe,
    \* history: the deliveries of command messages so far, in order: [id,
    \* invoked (whether bot.invoke ran)]
    cmdLog

actVars == <<users, activity, daily, messages, guildRow, guildFresh, userFresh, tasks, nEvents, today,
             committedMsgs, sumLen, committedGiven, committedRecv, committedIncr>>

engVars == <<engagement, engTask, nEng, engDone>>

sigVars == <<ai, aiTasks, rebuild, nUpdates, nRebuilds, userCooldown, aiDone, rebuildDone>>

alertVars == <<monitored, clock, notifications, checkDone, watchDone>>

viewVars == <<rankDone, snapDone, sentDone>>

ingestVars == <<dispatched>>

voiceVars == <<voiceState, activeSessions, voice, voiceDone>>

cmdVars == <<dedupe, cmdLog>>

vars == <<actVars, engVars, sigVars, alertVars, viewVars, ingestVars, voiceVars, cmdVars>>

\* ------------------------------------------------------------------ helpers
RECURSIVE GCD(_, _)
GCD(a, b) == IF b = 0 THEN a ELSE GCD(b, a % b)

\* a rational num/den reduced to lowest terms, den >= 1
Reduce(n, d) == LET g == GCD(n, d) IN IF g = 0 THEN <<0, 1>> ELSE <<n \div g, d \div g>>

\* f with key k set to v, k added to the domain when absent
Put(f, k, v) == [x \in (DOMAIN f) \cup {k} |-> IF x = k THEN v ELSE f[x]]

\* f overwritten by g on g's domain
Merge(f, g) == [x \in (DOMAIN f) \cup (DOMAIN g) |-> IF x \in DOMAIN g THEN g[x] ELSE f[x]]

EmptyFn == [x \in {} |-> 0]

\* the bag b with one more row of each member of rows
AddRows(b, rows) ==
    [x \in (DOMAIN b) \cup rows |->
        (IF x \in DOMAIN b THEN b[x] ELSE 0) + (IF x \in rows THEN 1 ELSE 0)]

\* --------------------------------------------------------------- the tasks
IdleTask == [kind |-> "idle", pc |-> "idle", user |-> 0, other |-> 0, text |-> "", len |-> 0, ts |-> 0,
             at |-> 0,
             channel |-> "", day |-> 0, pGuild |-> FALSE, pUsers |-> {},
             pAct |-> EmptyFn, pDaily |-> EmptyFn, pMsgs |-> {}]

\* Row locks. INSERT ... ON CONFLICT DO UPDATE locks the row (or the index
\* entry of the row being inserted) until the transaction ends; a second
\* transaction's statement on the same key waits for it.
ActLockFreeNoWait(t, u) == TRUE
ActLockFree(t, u) == \A t2 \in Tasks \ {t} : u \notin DOMAIN tasks[t2].pAct

DailyLockFree(t, k) == \A t2 \in Tasks \ {t} : k \notin DOMAIN tasks[t2].pDaily

UserLockFree(t, u) ==
    /\ \A t2 \in Tasks \ {t} : u \notin tasks[t2].pUsers
    /\ u \notin engTask.pUsers
    /\ \A s \in DOMAIN aiTasks : ~(aiTasks[s].pUser /\ aiTasks[s].user = u)
    /\ ~(rebuild.pUser /\ rebuild.user = u)
GuildLockFree(t) ==
    /\ \A t2 \in Tasks \ {t} : ~tasks[t2].pGuild
    /\ \A s \in DOMAIN aiTasks : ~aiTasks[s].pGuild
    /\ ~rebuild.pGuild

\* what transaction t sees: its own writes, else the committed row
ActView(t) == Merge(activity, tasks[t].pAct)
DailyView(t) == Merge(daily, tasks[t].pDaily)
UsersView(t) == users \cup tasks[t].pUsers
GuildView(t) == guildRow \/ tasks[t].pGuild

\* ------------------------------------------------------- the upsert statements
\* user_activity row written by the upsert of process_new_message
NewAvgPostCount(row, L) ==
    Reduce(row.avg[1] * (row.message_count + 1) + L * row.avg[2],
           row.avg[2] * (row.message_count + 1))
\* SET average_message_length = (avg * message_count + L) / (message_count + 1),
\* every column on the right being the row's value before the update
NewAvg(row, L) ==
    Reduce(row.avg[1] * row.message_count + L * row.avg[2],
           row.avg[2] * (row.message_count + 1))

MessageUpsert(view, u, L, ch) ==
    IF u \in DOMAIN view
    THEN [view[u] EXCEPT !.message_count = @ + 1,
                         !.avg = NewAvg(view[u], L),
                         !.channel = ch]
    ELSE [message_count |-> 1, avg |-> <<L, 1>>, channel |-> ch,
          reaction_count |-> 0, received_reactions |-> 0]

\* the reactor's upsert of process_reaction_add
ActorUpsert(view, u) ==
    IF u \in DOMAIN view
    THEN [view[u] EXCEPT !.reaction_count = @ + 1]
    ELSE [message_count |-> 0, avg |-> <<0, 1>>, channel |-> "",
          reaction_count |-> 1, received_reactions |-> 0]

\* the target author's upsert of process_reaction_add
TargetUpsert(view, u) ==
    IF u \in DOMAIN view
    THEN [view[u] EXCEPT !.received_reactions = @ + 1]
    ELSE [message_count |-> 0, avg |-> <<0, 1>>, channel |-> "",
          reaction_count |-> 0, received_reactions |-> 1]

\* _increment_daily_counter: count = 1 on insert, count + 1 on conflict
DailyUpsertLost(view, k) == 1
DailyUpsertZero(view, k) == IF k \in DOMAIN view THEN view[k] + 1 ELSE 0
DailyUpsert(view, k) == IF k \in DOMAIN view THEN view[k] + 1 ELSE 1

\* ----------------------------------------------------------- message events
histVars == <<committedMsgs, sumLen, committedGiven, committedRecv, committedIncr>>
tableVars == <<users, activity, daily, messages, guildRow>>
cacheVars == <<guildFresh, userFresh>>

\* on_message is called with a message that is not a command; its first
\* statement is upsert_guild, skipped while the guild is fresh in _GUILD_CACHE.
\* message.created_at grows from one message to the next: the timestamp of
\* the message is its arrival number.
MsgArrive(t) ==
    /\ tasks[t].kind = "idle"
    /\ nEvents < MaxEvents
    /\ nEvents' = nEvents + 1
    /\ \E u \in Users, text \in MsgTexts, ch \in Channels :
         LET new == [IdleTask EXCEPT !.kind = "msg", !.pc = "user",
                       !.user = u, !.text = text, !.len = Len(text),
                       !.ts = nEvents + 1, !.at = clock, !.channel = ch, !.day = today]
         IN IF guildFresh
            THEN /\ tasks' = [tasks EXCEPT ![t] = new]
                 /\ UNCHANGED guildFresh
            ELSE /\ GuildLockFree(t)
                 /\ guildFresh' = TRUE
                 /\ tasks' = [tasks EXCEPT ![t] = [new EXCEPT !.pGuild = TRUE]]
    /\ UNCHANGED <<tableVars, userFresh, today, histVars>>

\* upsert_user (skipped while fresh in _USER_CACHE; the insert needs the guild
\* row, FK users -> guilds), then add_message, which only adds the Message
\* object to the session: its INSERT is flushed by the commit
MsgUpsertUser(t) ==
    LET u == tasks[t].user
        m == <<u, tasks[t].text, tasks[t].ts>>
    IN
    /\ tasks[t].kind = "msg" /\ tasks[t].pc = "user"
    /\ IF u \in userFresh
       THEN /\ tasks' = [tasks EXCEPT ![t].pc = "activity", ![t].pMsgs = {m}]
            /\ UNCHANGED userFresh
       ELSE /\ UserLockFree(t, u)
            /\ userFresh' = userFresh \cup {u}
            /\ IF u \in users \/ GuildView(t)
               THEN tasks' = [tasks EXCEPT ![t].pc = "activity", ![t].pMsgs = {m},
                                           ![t].pUsers = @ \cup {u}]
               ELSE tasks' = [tasks EXCEPT ![t] = IdleTask]
    /\ UNCHANGED <<tableVars, guildFresh, nEvents, today, histVars>>

\* process_new_message(session=session): the user_activity upsert, then
\* _increment_daily_counter for the day of the same "now". A row that is
\* inserted needs its users row (FK user_activity -> users, user_message_daily
\* -> users); the error is caught and printed, and the failed transaction
\* cannot commit.
MsgProcessNewMessage(t) ==
    LET u == tasks[t].user
        k == <<u, today>>
        act == Put(tasks[t].pAct, u,
                   MessageUpsert(ActView(t), u, tasks[t].len, tasks[t].channel))
    IN
    /\ tasks[t].kind = "msg" /\ tasks[t].pc = "activity"
    /\ ActLockFree(t, u)
    /\ DailyLockFree(t, k)
    /\ IF /\ u \in DOMAIN ActView(t) \/ u \in UsersView(t)
          /\ k \in DOMAIN DailyView(t) \/ u \in UsersView(t)
       THEN tasks' = [tasks EXCEPT ![t].pc = "commit", ![t].day = today,
                        ![t].pAct = act,
                        ![t].pDaily = Put(@, k, DailyUpsert(DailyView(t), k))]
       ELSE tasks' = [tasks EXCEPT ![t] = IdleTask]
    /\ UNCHANGED <<tableVars, guildFresh, userFresh, nEvents, today, histVars>>

\* a commit that persists the aggregate and the daily counter and loses the row
\* of table messages
MsgCommitDropsRow(t) ==
    LET u == tasks[t].user
        k == <<u, tasks[t].day>>
    IN
    /\ tasks[t].kind = "msg" /\ tasks[t].pc = "commit"
    /\ IF u \in UsersView(t)
       THEN /\ users' = users \cup tasks[t].pUsers
            /\ guildRow' = (guildRow \/ tasks[t].pGuild)
            /\ activity' = Merge(activity, tasks[t].pAct)
            /\ daily' = Merge(daily, tasks[t].pDaily)
            /\ messages' = messages
            /\ committedMsgs' = [committedMsgs EXCEPT ![u] = @ + 1]
            /\ sumLen' = [sumLen EXCEPT ![u] = @ + tasks[t].len]
            /\ committedIncr' = [committedIncr EXCEPT ![k] = @ + 1]
            /\ tasks' = [tasks EXCEPT ![t] = IdleTask]
       ELSE /\ tasks' = [tasks EXCEPT ![t] = IdleTask]
            /\ UNCHANGED <<tableVars, committedMsgs, sumLen, committedIncr>>
    /\ UNCHANGED <<guildFresh, userFresh, nEvents, today, committedGiven, committedRecv>>

\* the end of "with session.begin()": the Message row is flushed (FK messages ->
\* users) and the transaction commits
MsgCommit(t) ==
    LET u == tasks[t].user
        k == <<u, tasks[t].day>>
    IN
    /\ tasks[t].kind = "msg" /\ tasks[t].pc = "commit"
    /\ IF u \in UsersView(t)
       THEN /\ users' = users \cup tasks[t].pUsers
            /\ guildRow' = (guildRow \/ tasks[t].pGuild)
            /\ activity' = Merge(activity, tasks[t].pAct)
            /\ daily' = Merge(daily, tasks[t].pDaily)
            /\ messages' = AddRows(messages, tasks[t].pMsgs)
            /\ committedMsgs' = [committedMsgs EXCEPT ![u] = @ + 1]
            /\ sumLen' = [sumLen EXCEPT ![u] = @ + tasks[t].len]
            /\ committedIncr' = [committedIncr EXCEPT ![k] = @ + 1]
            /\ tasks' = [tasks EXCEPT ![t] = IdleTask]
       ELSE /\ tasks' = [tasks EXCEPT ![t] = IdleTask]
            /\ UNCHANGED <<tableVars, committedMsgs, sumLen, committedIncr>>
    /\ UNCHANGED <<guildFresh, userFresh, nEvents, today, committedGiven, committedRecv>>

\* ---------------------------------------------------------- reaction events
\* on_reaction_add calls process_reaction_add(reactor, author, guild), which
\* opens its own session; stmt_actor: reaction_count += 1 on the reactor's row
ReactArrive(t) ==
    /\ tasks[t].kind = "idle"
    /\ nEvents < MaxEvents
    /\ nEvents' = nEvents + 1
    /\ \E r \in Users, a \in Users :
         /\ ActLockFree(t, r)
         /\ IF r \in DOMAIN activity \/ r \in users
            THEN tasks' = [tasks EXCEPT ![t] = [IdleTask EXCEPT !.kind = "react",
                             !.pc = "target", !.user = r, !.other = a,
                             !.pAct = Put(EmptyFn, r, ActorUpsert(activity, r))]]
            ELSE tasks' = tasks
    /\ UNCHANGED <<tableVars, guildFresh, userFresh, today, histVars>>

\* stmt_target: received_reactions += 1 on the author's row
ReactUpsertTarget(t) ==
    LET a == tasks[t].other IN
    /\ tasks[t].kind = "react" /\ tasks[t].pc = "target"
    /\ ActLockFree(t, a)
    /\ IF a \in DOMAIN ActView(t) \/ a \in UsersView(t)
       THEN tasks' = [tasks EXCEPT ![t].pc = "commit",
                        ![t].pAct = Put(@, a, TargetUpsert(ActView(t), a))]
       ELSE tasks' = [tasks EXCEPT ![t] = IdleTask]
    /\ UNCHANGED <<tableVars, guildFresh, userFresh, nEvents, today, histVars>>

\* session.commit() of process_reaction_add
ReactCommit(t) ==
    /\ tasks[t].kind = "react" /\ tasks[t].pc = "commit"
    /\ activity' = Merge(activity, tasks[t].pAct)
    /\ committedGiven' = [committedGiven EXCEPT ![tasks[t].user] = @ + 1]
    /\ committedRecv' = [committedRecv EXCEPT ![tasks[t].other] = @ + 1]
    /\ tasks' = [tasks EXCEPT ![t] = IdleTask]
    /\ UNCHANGED <<users, daily, messages, guildRow, guildFresh, userFresh, nEvents, today,
                   committedMsgs, sumLen, committedIncr>>

TxnFailPartial(t) ==
    /\ tasks[t].kind \in {"msg", "react"}
    /\ tasks' = [tasks EXCEPT ![t] = IdleTask]
    /\ activity' = Merge(activity, tasks[t].pAct)
    /\ UNCHANGED <<users, daily, messages, guildRow, guildFresh, userFresh, nEvents,
                   today, histVars>>

\* A statement of an open transaction raises SQLAlchemyError (connection
\* loss, deadlock victim): the transaction is rolled back, the event dropped.
TxnFail(t) ==
    /\ tasks[t].kind \in {"msg", "react"}
    /\ tasks' = [tasks EXCEPT ![t] = IdleTask]
    /\ UNCHANGED <<tableVars, guildFresh, userFresh, nEvents, today, histVars>>

\* an entry of the TTL caches expires (_TTL seconds after it was marked)
CacheExpire ==
    /\ \/ /\ guildFresh /\ guildFresh' = FALSE /\ UNCHANGED userFresh
       \/ /\ \E u \in userFresh : userFresh' = userFresh \ {u}
          /\ UNCHANGED guildFresh
    /\ UNCHANGED <<tableVars, tasks, nEvents, today, histVars>>

\* midnight UTC
NextDay ==
    /\ today < MaxDay
    /\ today' = today + 1
    /\ UNCHANGED <<tableVars, guildFresh, userFresh, tasks, nEvents, histVars>>

\* ------------------------------------------------------ engagement aggregator
IdleEng == [pc |-> "idle", author |-> 0, mentions |-> <<>>, i |-> 0, today |-> 0,
            messages |-> 0, made |-> 0, recv |-> 0, active |-> 0, streak |-> 0,
            score |-> 0, trueStreak |-> 0, pUsers |-> {}, pEng |-> EmptyFn]

NoEngDone == [valid |-> FALSE, author |-> 0, messages |-> 0, made |-> 0, recv |-> 0,
              active |-> 0, streak |-> 0, trueStreak |-> 0, prevScore |-> 0,
              today |-> 0]

EngIdle ==
    /\ engagement = EmptyFn
    /\ engTask = IdleEng
    /\ nEng = 0
    /\ engDone = NoEngDone

\* ------------------------------------------- content signals and alerts at rest
\* SQL NULL in the Float column toxicity_level / in communication_style /
\* in the TIMESTAMP column last_alert
NullLevel == 0 - 1
NoStyle == "none"
NoAlert == 0 - 1

\* the row that get_or_create_ai inserts, also the values of the reset
DefaultAi == [toxicity_level |-> 0, dominant_sentiment |-> "neutral",
              topics_of_interest |-> EmptyFn, communication_style |-> NoStyle]

AiSlots == 0..MaxWorkers
Workers == 1..MaxWorkers
\* the session of rebuild_ai_for_user, as a lock owner
RebuildId == MaxWorkers + 1

IdleAi == [pc |-> "idle", origin |-> "", user |-> 0, text |-> "", loaded |-> DefaultAi,
           created |-> FALSE, pUser |-> FALSE, pGuild |-> FALSE]

IdleRebuild == [pc |-> "idle", user |-> 0, loaded |-> DefaultAi, created |-> FALSE,
                pUser |-> FALSE, pGuild |-> FALSE, msgs |-> <<>>, i |-> 0,
                dirty |-> FALSE, second |-> FALSE, first |-> DefaultAi]

NoAiDone == [valid |-> FALSE, user |-> 0, origin |-> "", created |-> FALSE,
             isolated |-> FALSE, prev |-> 0, reading |-> 0]

NoRebuildDone == [valid |-> FALSE, user |-> 0, msgs |-> <<>>, stored |-> DefaultAi,
                  before |-> DefaultAi, expected |-> DefaultAi, second |-> FALSE,
                  first |-> DefaultAi]

NoCheckDone == [valid |-> FALSE, user |-> 0, watched |-> FALSE, known |-> FALSE,
                breach |-> FALSE, cooled |-> FALSE, consumed |-> FALSE, sent |-> FALSE,
                raised |-> FALSE, at |-> 0]

SigIdle ==
    /\ ai = EmptyFn
    /\ aiTasks = [s \in AiSlots |-> IdleAi]
    /\ rebuild = IdleRebuild
    /\ nUpdates = 0
    /\ nRebuilds = 0
    /\ userCooldown = EmptyFn
    /\ aiDone = NoAiDone
    /\ rebuildDone = NoRebuildDone

NoWatchDone == [valid |-> FALSE, user |-> 0, had |-> FALSE, cooling |-> FALSE]

AlertIdle ==
    /\ monitored = EmptyFn
    /\ clock = 0
    /\ notifications = [u \in Users |-> <<>>]
    /\ checkDone = NoCheckDone
    /\ watchDone = NoWatchDone

\* no !rank command has run
NoRankDone == [valid |-> FALSE, target |-> 0, profiles |-> <<>>, eng_norm |-> <<0, 1>>,
               score |-> <<0, 1>>, tier |-> "", position |-> 0, total |-> 0, next |-> "",
               n |-> 0]

\* no snapshot has been taken
NoSnapDone == [valid |-> FALSE, user |-> 0, sum_curr |-> 0, sum_prev |-> 0,
               delta7 |-> <<0, 1>>, n |-> 0]

\* no text has been classified
NoSentDone == [valid |-> FALSE, mode |-> "", text |-> "", score |-> 0, label |-> ""]

ViewIdle == rankDone = NoRankDone /\ snapDone = NoSnapDone /\ sentDone = NoSentDone

\* no inference has been dispatched
IngestIdle == dispatched = [u \in Users |-> <<>>]

NoVoiceDone == [n |-> 0, user |-> 0, failed |-> FALSE]

\* nobody is connected to a voice channel, no session is open, table
\* user_voice is empty
VoiceIdle ==
    /\ voiceState = [u \in Users |-> "none"]
    /\ activeSessions = EmptyFn
    /\ voice = EmptyFn
    /\ voiceDone = NoVoiceDone

\* no command message has been delivered
CmdIdle == dedupe = <<>> /\ cmdLog = <<>>

\* --------------------------------------------- specification of the activity store
\* The store starts empty but for users rows that other paths (mentions, the
\* content-signal update) may have created.
StoreInit ==
    /\ users \in SUBSET Users
    /\ guildRow \in BOOLEAN
    /\ (users # {}) => guildRow
    /\ activity = EmptyFn
    /\ daily = EmptyFn
    /\ messages = EmptyFn
    /\ guildFresh = FALSE
    /\ userFresh = {}
    /\ tasks = [t \in Tasks |-> IdleTask]
    /\ nEvents = 0
    /\ today = 1
    /\ committedMsgs = [u \in Users |-> 0]
    /\ sumLen = [u \in Users |-> 0]
    /\ committedGiven = [u \in Users |-> 0]
    /\ committedRecv = [u \in Users |-> 0]
    /\ committedIncr = [k \in Users \X Days |-> 0]

ActInit ==
    /\ StoreInit
    /\ EngIdle
    /\ SigIdle
    /\ AlertIdle
    /\ ViewIdle
    /\ IngestIdle
    /\ VoiceIdle
    /\ CmdIdle

\* a step of the activity store leaves the other components alone
ActOnly(A) == A /\ UNCHANGED <<engVars, sigVars, alertVars, viewVars, ingestVars, voiceVars, cmdVars>>

ActNext ==
    \/ \E t \in Tasks : ActOnly(MsgArrive(t) /\ tasks'[t].text \in ActTexts)
    \/ \E t \in Tasks : ActOnly(MsgUpsertUser(t))
    \/ \E t \in Tasks : ActOnly(MsgProcessNewMessage(t))
    \/ \E t \in Tasks : ActOnly(MsgCommit(t))
    \/ \E t \in Tasks : ActOnly(ReactArrive(t))
    \/ \E t \in Tasks : ActOnly(ReactUpsertTarget(t))
    \/ \E t \in Tasks : ActOnly(ReactCommit(t))
    \/ \E t \in Tasks : ActOnly(TxnFail(t))
    \/ ActOnly(NextDay)

SpecActivity == ActInit /\ [][ActNext]_vars

\* -------------------------------------------------- process_message_engagement
\* _engagement_score, in tenths
EngagementScoreSwapped(msgs, reactions_made, reactions_received, active_days, streak) ==
    5 * msgs + 10 * reactions_made + 2 * reactions_received
        + 30 * active_days + 20 * streak
EngagementScore(msgs, reactions_made, reactions_received, active_days, streak) ==
    5 * msgs + 10 * reactions_received + 2 * reactions_made
        + 30 * active_days + 20 * streak

\* today.replace(day=1)
StartOfMonth(d) == d - ((d - 1) % MonthLen)

\* the "while d in days_set" loop of _compute_active_days_and_streak
RECURSIVE StreakBack(_, _)
StreakBack(days_set, d) ==
    IF d \in days_set THEN 1 + StreakBack(days_set, d - 1) ELSE 0

\* the rows of the user that the query of _compute_active_days_and_streak
\* returns: day within [start_month, today] and count > 0
MonthRows(tbl, u, day) ==
    {d \in StartOfMonth(day)..day : <<u, d>> \in DOMAIN tbl /\ tbl[<<u, d>>] > 0}

\* a streak counted over every stored day up to today, the activity of the
\* months before included
ComputeStreakAcrossMonths(tbl, u, day) ==
    LET days_set == MonthRows(tbl, u, day)
        all_days == {d \in 1..day : <<u, d>> \in DOMAIN tbl /\ tbl[<<u, d>>] > 0}
    IN <<Cardinality(days_set), StreakBack(all_days, day)>>

ComputeActiveDaysAndStreak(tbl, u, day) ==
    LET days_set == MonthRows(tbl, u, day)
    IN <<Cardinality(days_set), StreakBack(days_set, day)>>

\* _safe_activity: (messages, reaction_count, received_reactions), zeros without a row
SafeActivity(u) ==
    IF u \in DOMAIN activity
    THEN <<activity[u].message_count, activity[u].reaction_count,
           activity[u].received_reactions>>
    ELSE <<0, 0, 0>>

EngView == Merge(engagement, engTask.pEng)

\* stmt_author
AuthorUpsert(view, a, inc_made, active_days, streak, score) ==
    IF a \in DOMAIN view
    THEN [view[a] EXCEPT !.mentions_made = @ + inc_made,
                         !.active_days_in_month = active_days,
                         !.streak_days = streak,
                         !.engagement_score = score]
    ELSE [mentions_made |-> inc_made, mentions_received |-> 0,
          threads_created |-> 0, invitations_sent |-> 0,
          active_days_in_month |-> active_days, streak_days |-> streak,
          engagement_score |-> score]

MentionUpsertOnce(view, m) ==
    IF m \in DOMAIN view
    THEN view[m]
    ELSE [mentions_made |-> 0, mentions_received |-> 1,
          threads_created |-> 0, invitations_sent |-> 0,
          active_days_in_month |-> 0, streak_days |-> 0, engagement_score |-> 0]

MentionUpsertRecompute(view, m) ==
    IF m \in DOMAIN view
    THEN [view[m] EXCEPT !.mentions_received = @ + 1, !.active_days_in_month = 0,
                         !.streak_days = 0, !.engagement_score = 0]
    ELSE [mentions_made |-> 0, mentions_received |-> 1,
          threads_created |-> 0, invitations_sent |-> 0,
          active_days_in_month |-> 0, streak_days |-> 0, engagement_score |-> 0]

\* stmt_m
MentionUpsert(view, m) ==
    IF m \in DOMAIN view
    THEN [view[m] EXCEPT !.mentions_received = @ + 1]
    ELSE [mentions_made |-> 0, mentions_received |-> 1,
          threads_created |-> 0, invitations_sent |-> 0,
          active_days_in_month |-> 0, streak_days |-> 0, engagement_score |-> 0]

\* on_message calls process_message_engagement for the author of a message
\* whose transaction committed; now and today are read first
EngBegin ==
    /\ engTask.pc = "idle"
    /\ nEng < MaxEngCalls
    /\ nEng' = nEng + 1
    /\ \E a \in Users, ms \in MentionLists :
         /\ a \in DOMAIN activity /\ activity[a].message_count >= 1
         /\ engTask' = [IdleEng EXCEPT !.pc = "ensure", !.author = a, !.mentions = ms,
                                       !.today = today]
    /\ UNCHANGED <<actVars, engagement, engDone>>

\* _ensure_user for the author (i = 0), then for each mentioned id: a users row
\* is added and flushed when the SELECT finds none
EngEnsureUser ==
    LET u == IF engTask.i = 0 THEN engTask.author ELSE engTask.mentions[engTask.i]
        last == engTask.i = Len(engTask.mentions)
        nextpc == IF last THEN "readActivity" ELSE "ensure"
    IN
    /\ engTask.pc = "ensure"
    /\ IF u \in users \cup engTask.pUsers
       THEN engTask' = [engTask EXCEPT !.i = @ + 1, !.pc = nextpc]
       ELSE /\ \A t \in Tasks : u \notin tasks[t].pUsers
            /\ \A s \in AiSlots : ~(aiTasks[s].pUser /\ aiTasks[s].user = u)
            /\ ~(rebuild.pUser /\ rebuild.user = u)
            /\ IF guildRow
               THEN engTask' = [engTask EXCEPT !.i = @ + 1, !.pc = nextpc,
                                               !.pUsers = @ \cup {u}]
               ELSE engTask' = IdleEng
    /\ UNCHANGED <<actVars, engagement, nEng, engDone>>

\* _safe_activity
EngReadActivity ==
    /\ engTask.pc = "readActivity"
    /\ engTask' = [engTask EXCEPT !.pc = "readDaily",
                                  !.messages = SafeActivity(engTask.author)[1],
                                  !.made = SafeActivity(engTask.author)[2],
                                  !.recv = SafeActivity(engTask.author)[3]]
    /\ UNCHANGED <<actVars, engagement, nEng, engDone>>

\* the number of consecutive days ending with day that have a count > 0
RECURSIVE ConsecutiveDays(_, _, _)
ConsecutiveDays(tbl, u, d) ==
    IF d >= 1 /\ <<u, d>> \in DOMAIN tbl /\ tbl[<<u, d>>] > 0
    THEN 1 + ConsecutiveDays(tbl, u, d - 1)
    ELSE 0

\* _compute_active_days_and_streak, then _engagement_score
EngReadDaily ==
    LET r == ComputeActiveDaysAndStreak(daily, engTask.author, engTask.today)
    IN
    /\ engTask.pc = "readDaily"
    /\ engTask' = [engTask EXCEPT !.pc = "author", !.active = r[1], !.streak = r[2],
                      !.score = EngagementScore(engTask.messages, engTask.made,
                                                engTask.recv, r[1], r[2]),
                      !.trueStreak = ConsecutiveDays(daily, engTask.author, engTask.today)]
    /\ UNCHANGED <<actVars, engagement, nEng, engDone>>

\* session.execute(stmt_author)
EngUpsertAuthor ==
    LET a == engTask.author IN
    /\ engTask.pc = "author"
    /\ engTask' = [engTask EXCEPT
                     !.pc = IF engTask.mentions = <<>> THEN "commit" ELSE "mention",
                     !.i = 1,
                     !.pEng = Put(@, a, AuthorUpsert(EngView, a, Len(engTask.mentions),
                                        engTask.active, engTask.streak, engTask.score))]
    /\ UNCHANGED <<actVars, engagement, nEng, engDone>>

\* session.execute(stmt_m) for the next mentioned id
EngUpsertMention ==
    LET m == engTask.mentions[engTask.i] IN
    /\ engTask.pc = "mention"
    /\ engTask' = [engTask EXCEPT
                     !.pc = IF engTask.i = Len(engTask.mentions) THEN "commit" ELSE "mention",
                     !.i = @ + 1,
                     !.pEng = Put(@, m, MentionUpsert(EngView, m))]
    /\ UNCHANGED <<actVars, engagement, nEng, engDone>>

\* session.commit()
EngCommit ==
    LET a == engTask.author IN
    /\ engTask.pc = "commit"
    /\ users' = users \cup engTask.pUsers
    /\ engagement' = Merge(engagement, engTask.pEng)
    /\ engDone' = [valid |-> TRUE, author |-> a, messages |-> engTask.messages,
                   made |-> engTask.made, recv |-> engTask.recv,
                   active |-> engTask.active, streak |-> engTask.streak,
                   trueStreak |-> engTask.trueStreak,
                   prevScore |-> IF a \in DOMAIN engagement
                                 THEN engagement[a].engagement_score ELSE 0,
                   today |-> engTask.today]
    /\ engTask' = IdleEng
    /\ UNCHANGED <<activity, daily, messages, guildRow, guildFresh, userFresh, tasks,
                   nEvents, today, histVars, nEng>>

EngFailPartial ==
    /\ engTask.pc # "idle"
    /\ engTask' = IdleEng
    /\ users' = users \cup engTask.pUsers
    /\ UNCHANGED <<activity, daily, messages, guildRow, guildFresh, userFresh, tasks,
                   nEvents, today, histVars, engagement, nEng, engDone>>

\* any exception inside the call: session.rollback(), the error is printed
EngFail ==
    /\ engTask.pc # "idle"
    /\ engTask' = IdleEng
    /\ UNCHANGED <<actVars, engagement, nEng, engDone>>

\* ------------------------------------- specification of the engagement aggregator
\* The store holds the history of user 1: one message of length 0 on each day
\* of a set of past days (their timestamps precede the run). Message and reaction events keep arriving, handled
\* one at a time, while process_message_engagement calls run.
EngInit ==
    /\ today \in EngDays
    /\ \E hist \in SUBSET (1..today) :
         /\ daily = [k \in {1} \X hist |-> 1]
         /\ messages = IF hist = {} THEN EmptyFn
                       ELSE [r \in {<<1, "", 0>>} |-> Cardinality(hist)]
         /\ activity = IF hist = {} THEN EmptyFn
                       ELSE [u \in {1} |-> [message_count |-> Cardinality(hist),
                                avg |-> <<0, 1>>, channel |-> "general",
                                reaction_count |-> 0, received_reactions |-> 0]]
         /\ committedMsgs = [u \in Users |-> IF u = 1 THEN Cardinality(hist) ELSE 0]
         /\ committedIncr = [k \in Users \X EngDays |->
                                IF k[1] = 1 /\ k[2] \in hist THEN 1 ELSE 0]
         /\ users \in {{1}, {1, 2}}
    /\ guildRow = TRUE
    /\ guildFresh = FALSE
    /\ userFresh = {}
    /\ tasks = [t \in Tasks |-> IdleTask]
    /\ nEvents = 0
    /\ sumLen = [u \in Users |-> 0]
    /\ committedGiven = [u \in Users |-> 0]
    /\ committedRecv = [u \in Users |-> 0]
    /\ EngIdle
    /\ SigIdle
    /\ AlertIdle
    /\ ViewIdle
    /\ IngestIdle
    /\ VoiceIdle
    /\ CmdIdle

\* The handlers of on_message, on_reaction_add and process_message_engagement
\* contain no await between their statements: on the single event loop thread
\* one of them runs to its end before the next one starts.
EngEnv(A) == engTask.pc = "idle" /\ A /\ UNCHANGED <<engVars, sigVars, alertVars, viewVars, ingestVars, voiceVars, cmdVars>>

\* a step of process_message_engagement leaves the other components alone
EngOnly(A) == A /\ UNCHANGED <<sigVars, alertVars, viewVars, ingestVars, voiceVars, cmdVars>>

EngNext ==
    \/ EngEnv(nEvents < MaxEngEvents /\ MsgArrive(1) /\ tasks'[1].len = 0)
    \/ EngEnv(MsgUpsertUser(1))
    \/ EngEnv(MsgProcessNewMessage(1))
    \/ EngEnv(MsgCommit(1))
    \/ EngEnv(nEvents < MaxEngEvents /\ ReactArrive(1))
    \/ EngEnv(ReactUpsertTarget(1))
    \/ EngEnv(ReactCommit(1))
    \/ EngOnly(tasks[1].kind = "idle" /\ EngBegin)
    \/ EngOnly(EngEnsureUser)
    \/ EngOnly(EngReadActivity)
    \/ EngOnly(EngReadDaily)
    \/ EngOnly(EngUpsertAuthor)
    \/ EngOnly(EngUpsertMention)
    \/ EngOnly(EngCommit)
    \/ EngOnly(EngFail)

SpecEngagement == EngInit /\ [][EngNext]_vars

\* ------------------------------------------------- content signals (analyze_text)
Min(a, b) == IF a < b THEN a ELSE b
Max(a, b) == IF a > b THEN a ELSE b

RECURSIVE Pow10(_)
Pow10(k) == IF k = 0 THEN 1 ELSE 10 * Pow10(k - 1)

\* The toxicity level 1.0. Readings have one decimal and every update adds
\* one decimal to the level, so that MaxUpdates updates are computed exactly.
TOX_ONE == Pow10(MaxUpdates + 1)
Tenths(k) == k * (TOX_ONE \div 10)

\* len(content.strip()): the contents of the model have no blank at either end
StrippedLen(text) == Len(text)

\* len(low.split())
WordCount(text) ==
    CASE text = "" -> 0
      [] text = "gros con" -> 2
      [] text = InsightText -> 3
      [] text = LongText -> 15
      [] OTHER -> 1

\* sum(w in low for w in _TOX_LEX): the entries of the lexicon that are
\* substrings of the text ("con" and "gros con" in "gros con", "con" in
\* "contextuelle")
ToxHits(text) ==
    CASE text = "gros con" -> 2
      [] text \in {"con", LongText, InsightText} -> 1
      [] OTHER -> 0

\* toxicity_local (AI_MODE = "local")
ToxicityLocal(text) ==
    LET hits == ToxHits(text)
        length == Max(1, WordCount(text))
        base_score == Min(TOX_ONE, (3 * hits * TOX_ONE) \div length)
        bonus == IF hits >= 3 THEN Tenths(4)
                 ELSE IF hits = 2 THEN TOX_ONE \div 4
                 ELSE IF hits = 1 THEN Tenths(1)
                 ELSE 0
    IN Min(TOX_ONE, base_score + bonus)

\* the tokens of the text that are in _POS_FR / in _NEG_FR
PosHits(text) == IF text = "merci" THEN 1 ELSE 0
NegHits(text) == IF text = "nul" THEN 1 ELSE 0

\* sentiment_local without VADER: score = (pos - neg) / max(1, pos + neg),
\* "positive" above 0.25, "negative" below -0.25
SentimentLocal(text) ==
    LET pos == PosHits(text)
        neg == NegHits(text)
        den == Max(1, pos + neg)
    IN IF 4 * (pos - neg) > den THEN "positive"
       ELSE IF 4 * (pos - neg) < 0 - den THEN "negative"
       ELSE "neutral"

\* topics_from_text: the number of keys of each topic of TOPIC_MAP in the text
TopicsFromText(text) == IF text = "python" THEN [k \in {"dev"} |-> 1] ELSE EmptyFn

\* style_from_text, for texts without "!", "?" and emojis
StyleFromText(text) ==
    IF Len(text) < 25 THEN "concise"
    ELSE IF Len(text) > 160 THEN "verbose"
    ELSE "balanced"

\* analyze_text: (sent_label, tox, topics, style); the sentiment score is not used
AnalyzeText(text) ==
    [label |-> SentimentLocal(text), tox |-> ToxicityLocal(text),
     topics |-> TopicsFromText(text), style |-> StyleFromText(text)]

\* ------------------------------------------------------------ analyze_and_update
\* prev_tox = float(ai.toxicity_level or 0.0)
PrevTox(level) == IF level = NullLevel THEN 0 ELSE level

ToxFusionUnclamped(prev, tox) ==
    LET prev_tox == PrevTox(prev)
        delta == tox - prev_tox
    IN IF delta > 0 THEN prev_tox + (delta * 18) \div 10
       ELSE prev_tox + (delta * 3) \div 10

ToxFusionSlowRise(prev, tox) ==
    LET prev_tox == PrevTox(prev)
        delta == tox - prev_tox
    IN Max(0, Min(TOX_ONE, prev_tox + (delta * 3) \div 10))

\* a level that comes down as fast as it rises
ToxFusionFastDecay(prev, tox) ==
    LET prev_tox == PrevTox(prev)
        delta == tox - prev_tox
    IN Max(0, Min(TOX_ONE, prev_tox + (delta * 18) \div 10))

\* the new toxicity_level: it rises fast and comes down slowly
ToxFusion(prev, tox) ==
    LET prev_tox == PrevTox(prev)
        delta == tox - prev_tox
    IN IF delta > 0
       THEN Min(TOX_ONE, prev_tox + (delta * 18) \div 10)
       ELSE Max(0, prev_tox + (delta * 3) \div 10)

\* old_topics[k] = old_topics.get(k, 0) + v
MergeTopics(old, add) ==
    [k \in (DOMAIN old) \cup (DOMAIN add) |->
        (IF k \in DOMAIN old THEN old[k] ELSE 0) + (IF k \in DOMAIN add THEN add[k] ELSE 0)]

\* the attributes of the ai object after the assignments of analyze_and_update
Updated(row, text) ==
    LET r == AnalyzeText(text) IN
    [toxicity_level |-> ToxFusion(row.toxicity_level, r.tox),
     dominant_sentiment |-> r.label,
     topics_of_interest |-> MergeTopics(row.topics_of_interest, r.topics),
     communication_style |-> r.style]

\* The UPDATE that the flush of session.commit() emits for an object that was
\* loaded as "loaded" and now holds "new": it sets the columns whose value
\* differs from the loaded one, and leaves the others as they are in the row.
FlushUpdate(row, loaded, new) ==
    [c \in DOMAIN DefaultAi |-> IF new[c] # loaded[c] THEN new[c] ELSE row[c]]

\* An INSERT waits while another session holds an uncommitted insert of the
\* same key (guilds, users, or the unique key of user_ai_analysis).
OtherGuildInsert(self) ==
    \/ \E s \in AiSlots \ {self} : aiTasks[s].pGuild
    \/ self # RebuildId /\ rebuild.pGuild
    \/ \E t \in Tasks : tasks[t].pGuild

OtherUserInsert(self, u) ==
    \/ \E s \in AiSlots \ {self} : aiTasks[s].pUser /\ aiTasks[s].user = u
    \/ self # RebuildId /\ rebuild.pUser /\ rebuild.user = u
    \/ \E t \in Tasks : u \in tasks[t].pUsers
    \/ u \in engTask.pUsers

OtherAiInsert(self, u) ==
    \/ \E s \in AiSlots \ {self} : aiTasks[s].created /\ aiTasks[s].user = u
    \/ self # RebuildId /\ rebuild.created /\ rebuild.user = u

\* the event loop thread is not inside the transaction of a message handler
EventLoopFree == \A t \in Tasks : tasks[t].kind = "idle"

\* the lowest idle worker slot
FreeWorker == CHOOSE s \in Workers :
                 /\ aiTasks[s].pc = "idle"
                 /\ \A r \in Workers : r < s => aiTasks[r].pc # "idle"

\* analyze_and_update is called: nothing happens for a content of less than
\* two characters, else a session is opened
AiStart(s, u, text, origin) ==
    /\ aiTasks[s].pc = "idle"
    /\ IF StrippedLen(text) < 2
       THEN /\ aiTasks' = [aiTasks EXCEPT ![s] =
                            IF origin = "message"
                            THEN [IdleAi EXCEPT !.pc = "check", !.origin = origin, !.user = u]
                            ELSE IdleAi]
            /\ UNCHANGED nUpdates
       ELSE /\ nUpdates < MaxUpdates
            /\ nUpdates' = nUpdates + 1
            /\ aiTasks' = [aiTasks EXCEPT ![s] =
                            [IdleAi EXCEPT !.pc = "ensure", !.origin = origin,
                                           !.user = u, !.text = text]]

\* the slot after the call has returned: the on_message coroutine goes on to
\* check_toxicity_and_alert, the rebuild loop to its next message
Returned(s) ==
    IF aiTasks[s].origin = "message"
    THEN [IdleAi EXCEPT !.pc = "check", !.origin = "message", !.user = aiTasks[s].user]
    ELSE IdleAi

\* the !insight command (it does not look at USER_COOLDOWN)
Insight(u) ==
    /\ EventLoopFree
    /\ \E s \in Workers : aiTasks[s].pc = "idle"
    /\ AiStart(FreeWorker, u, InsightText, "insight")
    /\ UNCHANGED <<actVars, engVars, alertVars, viewVars, ingestVars, voiceVars, cmdVars, ai, rebuild, nRebuilds, userCooldown,
                   aiDone, rebuildDone>>

\* ensure_guild_and_user: a guilds row and a users row are added and flushed
\* when the SELECT finds none
AiEnsure(s) ==
    LET u == aiTasks[s].user IN
    /\ aiTasks[s].pc = "ensure"
    /\ ~guildRow => ~OtherGuildInsert(s)
    /\ u \notin users => ~OtherUserInsert(s, u)
    /\ aiTasks' = [aiTasks EXCEPT ![s].pc = "analyze", ![s].pGuild = ~guildRow,
                                  ![s].pUser = (u \notin users)]
    /\ UNCHANGED <<actVars, engVars, alertVars, viewVars, ingestVars, voiceVars, cmdVars, ai, rebuild, nUpdates, nRebuilds,
                   userCooldown, aiDone, rebuildDone>>

\* analyze_text, then the SELECT of get_or_create_ai
AiSelect(s) ==
    LET u == aiTasks[s].user IN
    /\ aiTasks[s].pc = "analyze"
    /\ aiTasks' = IF u \in DOMAIN ai
                  THEN [aiTasks EXCEPT ![s].pc = "loaded", ![s].loaded = ai[u]]
                  ELSE [aiTasks EXCEPT ![s].pc = "insert"]
    /\ UNCHANGED <<actVars, engVars, alertVars, viewVars, ingestVars, voiceVars, cmdVars, ai, rebuild, nUpdates, nRebuilds,
                   userCooldown, aiDone, rebuildDone>>

\* the INSERT of get_or_create_ai (session.add, session.flush). When the row
\* has been committed by another session since the SELECT, the unique
\* constraint raises IntegrityError: rollback, the call returns.
AiInsert(s) ==
    LET u == aiTasks[s].user IN
    /\ aiTasks[s].pc = "insert"
    /\ ~OtherAiInsert(s, u)
    /\ IF u \in DOMAIN ai
       THEN /\ aiTasks' = [aiTasks EXCEPT ![s] = Returned(s)]
            /\ rebuild' = IF aiTasks[s].origin = "rebuild"
                          THEN [rebuild EXCEPT !.pc = "loop", !.i = @ + 1, !.dirty = TRUE]
                          ELSE rebuild
       ELSE /\ aiTasks' = [aiTasks EXCEPT ![s].pc = "loaded", ![s].loaded = DefaultAi,
                                          ![s].created = TRUE]
            /\ UNCHANGED rebuild
    /\ UNCHANGED <<actVars, engVars, alertVars, viewVars, ingestVars, voiceVars, cmdVars, ai, nUpdates, nRebuilds, userCooldown,
                   aiDone, rebuildDone>>

\* the assignments to the ai object and session.commit()
AiCommit(s) ==
    LET u == aiTasks[s].user
        loaded == aiTasks[s].loaded
        new == Updated(loaded, aiTasks[s].text)
        nested == aiTasks[s].origin = "rebuild"
    IN
    /\ aiTasks[s].pc = "loaded"
    /\ ai' = Put(ai, u, IF aiTasks[s].created THEN new ELSE FlushUpdate(ai[u], loaded, new))
    /\ users' = IF aiTasks[s].pUser THEN users \cup {u} ELSE users
    /\ guildRow' = (guildRow \/ aiTasks[s].pGuild)
    /\ aiDone' = [valid |-> TRUE, user |-> u, origin |-> aiTasks[s].origin,
                  created |-> aiTasks[s].created,
                  isolated |-> (aiTasks[s].created \/ ai[u] = loaded),
                  prev |-> loaded.toxicity_level,
                  reading |-> AnalyzeText(aiTasks[s].text).tox]
    /\ rebuildDone' = IF rebuildDone.user = u THEN NoRebuildDone ELSE rebuildDone
    /\ aiTasks' = [aiTasks EXCEPT ![s] = Returned(s)]
    /\ rebuild' = IF nested THEN [rebuild EXCEPT !.pc = "loop", !.i = @ + 1]
                  ELSE IF rebuild.pc # "idle" /\ rebuild.user = u
                       THEN [rebuild EXCEPT !.dirty = TRUE]
                       ELSE rebuild
    /\ UNCHANGED <<activity, daily, messages, guildFresh, userFresh, tasks, nEvents, today,
                   histVars, engVars, alertVars, viewVars, ingestVars, voiceVars, cmdVars, nUpdates, nRebuilds, userCooldown>>

\* any exception inside the call: session.rollback(), the error is printed
AiFail(s) ==
    /\ aiTasks[s].pc \in {"ensure", "analyze", "insert", "loaded"}
    /\ aiTasks' = [aiTasks EXCEPT ![s] = Returned(s)]
    /\ rebuild' = IF aiTasks[s].origin = "rebuild"
                  THEN [rebuild EXCEPT !.pc = "loop", !.i = @ + 1, !.dirty = TRUE]
                  ELSE rebuild
    /\ UNCHANGED <<actVars, engVars, alertVars, viewVars, ingestVars, voiceVars, cmdVars, ai, nUpdates, nRebuilds, userCooldown,
                   aiDone, rebuildDone>>

\* ----------------------------------------------------------- rebuild_ai_for_user
RECURSIVE RowsUpTo(_, _)
\* the contents of the messages of user u with a timestamp of at most k, in
\* ascending order of timestamp (rows of equal timestamp in the order of CHOOSE)
RowsUpTo(u, k) ==
    IF k < 0 THEN <<>>
    ELSE LET at == {r \in DOMAIN messages : r[1] = u /\ r[3] = k}
             RECURSIVE Lay(_)
             Lay(S) == IF S = {} THEN <<>>
                       ELSE LET r == CHOOSE x \in S : TRUE
                            IN [j \in 1..messages[r] |-> r[2]] \o Lay(S \ {r})
         IN RowsUpTo(u, k - 1) \o Lay(at)

\* session.query(Message).filter_by(user_id, guild_id).order_by(timestamp.asc())
History(u) == RowsUpTo(u, nEvents)

RECURSIVE Replay(_, _, _)
\* analyze_and_update applied to msgs[i], msgs[i+1], ... starting from row
Replay(row, msgs, i) ==
    IF i > Len(msgs) THEN row
    ELSE Replay(IF StrippedLen(msgs[i]) < 2 THEN row ELSE Updated(row, msgs[i]), msgs, i + 1)

\* ensure_guild_and_user, get_or_create_ai (the INSERT is flushed), the reset of
\* the four attributes of the ai object in memory, and the query of the
\* messages. SessionLocal has autoflush=False: the reset is not sent to the
\* database before the commit.
RebuildBegin(u) ==
    /\ rebuild.pc = "idle"
    /\ nRebuilds < MaxRebuilds
    /\ nRebuilds' = nRebuilds + 1
    /\ ~guildRow => ~OtherGuildInsert(RebuildId)
    /\ u \notin users => ~OtherUserInsert(RebuildId, u)
    /\ u \notin DOMAIN ai => ~OtherAiInsert(RebuildId, u)
    /\ rebuild' = [pc |-> "loop", user |-> u,
                   loaded |-> IF u \in DOMAIN ai THEN ai[u] ELSE DefaultAi,
                   created |-> (u \notin DOMAIN ai),
                   pUser |-> (u \notin users), pGuild |-> ~guildRow,
                   msgs |-> History(u), i |-> 1, dirty |-> FALSE,
                   second |-> (rebuildDone.valid /\ rebuildDone.user = u
                                 /\ rebuildDone.msgs = History(u)),
                   first |-> rebuildDone.stored]
    /\ UNCHANGED <<actVars, engVars, alertVars, viewVars, ingestVars, voiceVars, cmdVars, ai, aiTasks, nUpdates, userCooldown,
                   aiDone, rebuildDone>>

\* the loop calls analyze_and_update(user_id, guild_id, m.message_content),
\* which opens a session of its own
RebuildCall ==
    /\ rebuild.pc = "loop"
    /\ rebuild.i <= Len(rebuild.msgs)
    /\ AiStart(0, rebuild.user, rebuild.msgs[rebuild.i], "rebuild")
    /\ rebuild' = IF StrippedLen(rebuild.msgs[rebuild.i]) < 2
                  THEN [rebuild EXCEPT !.i = @ + 1]
                  ELSE [rebuild EXCEPT !.pc = "calling"]
    /\ UNCHANGED <<actVars, engVars, alertVars, viewVars, ingestVars, voiceVars, cmdVars, ai, nRebuilds, userCooldown, aiDone,
                   rebuildDone>>

\* session.commit() of the rebuild: the flush sends the reset
RebuildCommit ==
    LET u == rebuild.user
        row == IF rebuild.created THEN DefaultAi
               ELSE FlushUpdate(ai[u], rebuild.loaded, DefaultAi)
    IN
    /\ rebuild.pc = "loop"
    /\ rebuild.i > Len(rebuild.msgs)
    /\ ai' = Put(ai, u, row)
    /\ users' = IF rebuild.pUser THEN users \cup {u} ELSE users
    /\ guildRow' = (guildRow \/ rebuild.pGuild)
    /\ rebuildDone' = [valid |-> ~rebuild.dirty, user |-> u, msgs |-> rebuild.msgs,
                       stored |-> row, before |-> rebuild.loaded,
                       expected |-> Replay(DefaultAi, rebuild.msgs, 1),
                       second |-> (rebuild.second /\ ~rebuild.dirty),
                       first |-> rebuild.first]
    /\ aiDone' = IF aiDone.user = u THEN NoAiDone ELSE aiDone
    /\ rebuild' = IdleRebuild
    /\ UNCHANGED <<activity, daily, messages, guildFresh, userFresh, tasks, nEvents, today,
                   histVars, engVars, alertVars, viewVars, ingestVars, voiceVars, cmdVars, aiTasks, nUpdates, nRebuilds, userCooldown>>

\* SQLAlchemyError in the rebuild's own session: rollback
RebuildFail ==
    /\ rebuild.pc = "loop"
    /\ rebuild' = IdleRebuild
    /\ UNCHANGED <<actVars, engVars, alertVars, viewVars, ingestVars, voiceVars, cmdVars, ai, aiTasks, nUpdates, nRebuilds,
                   userCooldown, aiDone, rebuildDone>>

\* ------------------------------------------------ alerts (admin_commands.py)
\* seconds that the clock advances at a time in the alert model
TickSeconds == 1800
\* COOLDOWN_SEC of main.py
COOLDOWN_SEC == 15
\* timedelta(hours=2) of check_toxicity_and_alert, in seconds
AlertCooldown == 7200

\* the outcomes of looking up a destination and sending to it
Sink == {"none", "ok", "error"}

ThresholdZero(row) == 0

\* float(row["threshold"] or 0.8)
Threshold(row) == IF row.threshold = 0 THEN Tenths(8) ELSE row.threshold

\* MonitorSelect.callback: the member picked in the menu of !admin top-toxic
\* (the members with a user_ai_analysis row) is watched with threshold 0.8
\* the row of monitored_users after INSERT ... ON CONFLICT (user_id, guild_id)
\* DO UPDATE SET threshold = EXCLUDED.threshold, re-arming the cooldown
WatchRowRearm(u) ==
    [threshold |-> Tenths(8), last_alert |-> NoAlert, added_at |-> clock]

\* the row of monitored_users after INSERT ... ON CONFLICT (user_id, guild_id)
\* DO UPDATE SET threshold = EXCLUDED.threshold: added_at is NOW() and
\* last_alert the default NULL in a new row
WatchRow(u) ==
    IF u \in DOMAIN monitored
    THEN [monitored[u] EXCEPT !.threshold = Tenths(8)]
    ELSE [threshold |-> Tenths(8), last_alert |-> NoAlert, added_at |-> clock]

WatchUser(u) ==
    /\ EventLoopFree
    /\ u \in DOMAIN ai /\ u \in users
    /\ monitored' = Put(monitored, u, WatchRow(u))
    /\ watchDone' = [valid |-> TRUE, user |-> u, had |-> u \in DOMAIN monitored,
                     cooling |-> /\ u \in DOMAIN monitored
                                 /\ monitored[u].last_alert # NoAlert
                                 /\ clock - monitored[u].last_alert < AlertCooldown]
    /\ UNCHANGED <<actVars, engVars, sigVars, clock, notifications, checkDone,
                   viewVars, ingestVars, voiceVars, cmdVars>>

\* check_toxicity_and_alert, awaited by on_message after analyze_and_update has
\* returned. It has no await before its commit. The alert goes to the bot's
\* private channel, else to the owner of the guild. An error of chan.send is
\* raised to on_message, an error of owner.send is swallowed.
AlertCheckCore(s) ==
    LET u == aiTasks[s].user
        watched == u \in DOMAIN monitored
        known == u \in DOMAIN ai /\ ai[u].toxicity_level # NullLevel
        breach == watched /\ known /\ ai[u].toxicity_level >= Threshold(monitored[u])
        cooled == watched /\ (\/ monitored[u].last_alert = NoAlert
                              \/ clock - monitored[u].last_alert >= AlertCooldown)
        done == [valid |-> TRUE, user |-> u, watched |-> watched, known |-> known,
                 breach |-> breach, cooled |-> cooled, consumed |-> FALSE,
                 sent |-> FALSE, raised |-> FALSE, at |-> clock]
    IN
    /\ aiTasks[s].pc = "check"
    /\ EventLoopFree
    /\ aiTasks' = [aiTasks EXCEPT ![s] = IdleAi]
    /\ IF breach /\ cooled
       THEN \E db_ok \in BOOLEAN, guild \in BOOLEAN, chan \in Sink, owner \in Sink :
              LET sent == guild /\ (chan = "ok" \/ (chan = "none" /\ owner = "ok")) IN
              IF db_ok
              THEN /\ monitored' = [monitored EXCEPT ![u].last_alert = clock]
                   /\ notifications' = IF sent
                                       THEN [notifications EXCEPT ![u] = Append(@, clock)]
                                       ELSE notifications
                   /\ checkDone' = [done EXCEPT !.consumed = TRUE, !.sent = sent,
                                                !.raised = (guild /\ chan = "error")]
              ELSE /\ checkDone' = [done EXCEPT !.valid = FALSE]
                   /\ UNCHANGED <<monitored, notifications>>
       ELSE /\ checkDone' = done
            /\ UNCHANGED <<monitored, notifications>>
    /\ UNCHANGED <<actVars, clock, ai, rebuild, nUpdates, nRebuilds,
                   userCooldown, aiDone, rebuildDone, viewVars, ingestVars, voiceVars, cmdVars, watchDone>>

AlertCheck(s) == AlertCheckCore(s) /\ UNCHANGED engVars

\* time passes
Tick(step) ==
    /\ clock + step <= MaxTicks * TickSeconds
    /\ clock' = clock + step
    /\ UNCHANGED <<actVars, engVars, sigVars, monitored, notifications, checkDone,
                   watchDone, viewVars, ingestVars, voiceVars, cmdVars>>

\* ------------------------------------------ on_message with content signals
\* a step of the message transaction, run by the event loop thread
SigEnv(A) == A /\ UNCHANGED <<engVars, sigVars, alertVars, viewVars, ingestVars, voiceVars, cmdVars>>

\* The transaction of on_message commits; then, for a content of at least six
\* characters of a user whose last dispatched message was created more than
\* COOLDOWN_SEC before this one,
\* analyze_and_update is handed to AI_EXECUTOR and the coroutine awaits it.
MsgCommitDispatch ==
    LET u == tasks[1].user
        text == tasks[1].text
        due == /\ u \in UsersView(1)
               /\ Len(text) >= 6
               /\ \/ u \notin DOMAIN userCooldown
                  \/ tasks[1].at - userCooldown[u] > COOLDOWN_SEC
    IN
    /\ MsgCommit(1)
    /\ IF due
       THEN /\ \E s \in Workers : aiTasks[s].pc = "idle"
            /\ AiStart(FreeWorker, u, text, "message")
            /\ userCooldown' = Put(userCooldown, u, tasks[1].at)
            /\ dispatched' = [dispatched EXCEPT ![u] = Append(@, tasks[1].at)]
       ELSE UNCHANGED <<aiTasks, nUpdates, userCooldown, dispatched>>
    /\ UNCHANGED <<engVars, alertVars, viewVars, voiceVars, cmdVars, ai, rebuild, nRebuilds,
                   aiDone, rebuildDone>>

\* --------------------------------------- specification of the content signals
RECURSIVE SumLen(_)
SumLen(hist) == IF hist = <<>> THEN 0 ELSE Len(Head(hist)) + SumLen(Tail(hist))

\* The store holds the messages that user 1 has sent so far, none of them
\* analysed yet (a content signal update that fails leaves no trace).
\* !insight commands and rebuilds are issued and the worker threads run; no
\* message arrives during the run.
SigInit ==
    /\ \E n \in 0..MaxSigEvents : \E hist \in [1..n -> SigTexts] :
         /\ messages = [r \in {<<1, hist[i], i>> : i \in 1..n} |-> 1]
         /\ nEvents = n
         /\ activity = IF n = 0 THEN EmptyFn
                       ELSE [u \in {1} |-> [message_count |-> n,
                                avg |-> Reduce(SumLen(hist), n), channel |-> "general",
                                reaction_count |-> 0, received_reactions |-> 0]]
         /\ daily = [k \in {<<1, 1>> : i \in 1..n} |-> n]
         /\ committedMsgs = [u \in Users |-> IF u = 1 THEN n ELSE 0]
         /\ sumLen = [u \in Users |-> IF u = 1 THEN SumLen(hist) ELSE 0]
         /\ committedIncr = [k \in Users \X Days |-> IF k = <<1, 1>> THEN n ELSE 0]
         /\ users \in IF n = 0 THEN SUBSET Users ELSE {{1}, {1, 2}}
    /\ guildRow \in BOOLEAN
    /\ (users # {}) => guildRow
    /\ guildFresh = FALSE
    /\ userFresh = {}
    /\ tasks = [t \in Tasks |-> IdleTask]
    /\ today = 1
    /\ committedGiven = [u \in Users |-> 0]
    /\ committedRecv = [u \in Users |-> 0]
    /\ EngIdle
    /\ SigIdle
    /\ AlertIdle
    /\ ViewIdle
    /\ IngestIdle
    /\ VoiceIdle
    /\ CmdIdle

SigNext ==
    \/ \E u \in Users : Insight(u)
    \/ \E s \in AiSlots : AiEnsure(s)
    \/ \E s \in AiSlots : AiSelect(s)
    \/ \E s \in AiSlots : AiInsert(s)
    \/ \E s \in AiSlots : AiCommit(s)
    \/ \E s \in AiSlots : AiFail(s)
    \/ \E u \in Users : RebuildBegin(u)
    \/ RebuildCall
    \/ RebuildCommit
    \/ RebuildFail

SpecSignals == SigInit /\ [][SigNext]_vars

\* ------------------------------------------------ specification of the alerts
\* Messages of user 1 arrive one at a time, their content signals are updated
\* by one worker and checked, members are put under watch, and time passes.
AlertInit ==
    /\ StoreInit
    /\ users = {1}
    /\ EngIdle
    /\ SigIdle
    /\ AlertIdle
    /\ ViewIdle
    /\ IngestIdle
    /\ VoiceIdle
    /\ CmdIdle

AlertNext ==
    \/ SigEnv(MsgArrive(1) /\ tasks'[1].text \in AlertTexts /\ tasks'[1].user = 1)
    \/ SigEnv(MsgUpsertUser(1))
    \/ SigEnv(MsgProcessNewMessage(1))
    \/ aiTasks[1].pc = "idle" /\ MsgCommitDispatch
    \/ AiEnsure(1)
    \/ AiSelect(1)
    \/ AiInsert(1)
    \/ AiCommit(1)
    \/ AiFail(1)
    \/ AlertCheck(1)
    \/ \E u \in Users : clock = 0 /\ WatchUser(u)
    \/ Tick(TickSeconds)

SpecAlert == AlertInit /\ [][AlertNext]_vars

\* -------------------------------------------- on_message, the whole handler
\* contents of the messages: six characters (long enough for the inference)
\* and three
IngestTexts == {"python", "con"}
\* last second of the clock in the model of the handler
MaxSeconds == 32
\* the members that a message mentions, in that model
IngestMentions == {<<>>, <<2>>}

\* process_message_engagement is called for the author a
EngCall(a) ==
    /\ nEng' = nEng + 1
    /\ \E ms \in MentionLists :
         engTask' = [IdleEng EXCEPT !.pc = "ensure", !.author = a, !.mentions = ms,
                                    !.today = today]
    /\ UNCHANGED <<engagement, engDone>>

MsgCommitEngageEager ==
    LET u == tasks[1].user
        text == tasks[1].text
        ok == u \in UsersView(1)
        due == /\ ok
               /\ Len(text) >= 6
               /\ \/ u \notin DOMAIN userCooldown
                  \/ tasks[1].at - userCooldown[u] >= COOLDOWN_SEC
    IN
    /\ engTask.pc = "idle"
    /\ MsgCommit(1)
    /\ IF due
       THEN /\ \E s \in Workers : aiTasks[s].pc = "idle"
            /\ AiStart(FreeWorker, u, text, "message")
            /\ userCooldown' = Put(userCooldown, u, tasks[1].at)
            /\ dispatched' = [dispatched EXCEPT ![u] = Append(@, tasks[1].at)]
            /\ UNCHANGED engVars
       ELSE /\ IF ok THEN EngCall(u) ELSE UNCHANGED engVars
            /\ UNCHANGED <<aiTasks, nUpdates, userCooldown, dispatched>>
    /\ UNCHANGED <<alertVars, viewVars, voiceVars, cmdVars, ai, rebuild, nRebuilds, aiDone,
                   rebuildDone>>

MsgCommitEngageBlocking ==
    LET u == tasks[1].user
        text == tasks[1].text
        ok == u \in UsersView(1)
        due == /\ ok
               /\ Len(text) >= 6
               /\ \/ u \notin DOMAIN userCooldown
                  \/ tasks[1].at - userCooldown[u] > COOLDOWN_SEC
    IN
    /\ engTask.pc = "idle"
    /\ \A s \in Workers : aiTasks[s].pc = "idle"
    /\ MsgCommit(1)
    /\ IF due
       THEN /\ \E s \in Workers : aiTasks[s].pc = "idle"
            /\ AiStart(FreeWorker, u, text, "message")
            /\ userCooldown' = Put(userCooldown, u, tasks[1].at)
            /\ dispatched' = [dispatched EXCEPT ![u] = Append(@, tasks[1].at)]
            /\ UNCHANGED engVars
       ELSE /\ IF ok THEN EngCall(u) ELSE UNCHANGED engVars
            /\ UNCHANGED <<aiTasks, nUpdates, userCooldown, dispatched>>
    /\ UNCHANGED <<alertVars, viewVars, voiceVars, cmdVars, ai, rebuild, nRebuilds, aiDone,
                   rebuildDone>>

\* on_message from the commit of its transaction to its first await: for a
\* content of at least six characters of a user whose last dispatched message
\* was created more than COOLDOWN_SEC before this one, USER_COOLDOWN is set
\* and analyze_and_update is handed to AI_EXECUTOR; otherwise the handler goes
\* straight on to process_message_engagement. A transaction that failed ends
\* the handler.
MsgCommitEngage ==
    LET u == tasks[1].user
        text == tasks[1].text
        ok == u \in UsersView(1)
        due == /\ ok
               /\ Len(text) >= 6
               /\ \/ u \notin DOMAIN userCooldown
                  \/ tasks[1].at - userCooldown[u] > COOLDOWN_SEC
    IN
    /\ engTask.pc = "idle"
    /\ MsgCommit(1)
    /\ IF due
       THEN /\ \E s \in Workers : aiTasks[s].pc = "idle"
            /\ AiStart(FreeWorker, u, text, "message")
            /\ userCooldown' = Put(userCooldown, u, tasks[1].at)
            /\ dispatched' = [dispatched EXCEPT ![u] = Append(@, tasks[1].at)]
            /\ UNCHANGED engVars
       ELSE /\ IF ok THEN EngCall(u) ELSE UNCHANGED engVars
            /\ UNCHANGED <<aiTasks, nUpdates, userCooldown, dispatched>>
    /\ UNCHANGED <<alertVars, viewVars, voiceVars, cmdVars, ai, rebuild, nRebuilds, aiDone,
                   rebuildDone>>

\* on_message after analyze_and_update has returned: check_toxicity_and_alert,
\* then process_message_engagement unless the check raised
AlertCheckEngage(s) ==
    /\ engTask.pc = "idle"
    /\ AlertCheckCore(s)
    /\ IF checkDone'.raised THEN UNCHANGED engVars ELSE EngCall(aiTasks[s].user)

\* Messages of user 1 arrive; the event loop runs one handler at a time up to
\* its await, the worker threads run beside it, and time passes: first the
\* length of the cooldown, then second by second.
IngestInit ==
    /\ StoreInit
    /\ users = {1}
    /\ EngIdle
    /\ SigIdle
    /\ AlertIdle
    /\ ViewIdle
    /\ IngestIdle
    /\ VoiceIdle
    /\ CmdIdle

IngestNext ==
    \/ /\ engTask.pc = "idle"
       /\ SigEnv(MsgArrive(1) /\ tasks'[1].text \in IngestTexts /\ tasks'[1].user = 1)
    \/ SigEnv(MsgUpsertUser(1))
    \/ SigEnv(MsgProcessNewMessage(1))
    \/ SigEnv(TxnFail(1))
    \/ MsgCommitEngage /\ engTask'.mentions \in IngestMentions
    \/ \E s \in Workers : AiEnsure(s)
    \/ \E s \in Workers : AiSelect(s)
    \/ \E s \in Workers : AiInsert(s)
    \/ \E s \in Workers : AiCommit(s)
    \/ \E s \in Workers : AiFail(s)
    \/ \E s \in Workers : AlertCheckEngage(s) /\ engTask'.mentions \in IngestMentions
    \/ EngOnly(EngEnsureUser)
    \/ EngOnly(EngReadActivity)
    \/ EngOnly(EngReadDaily)
    \/ EngOnly(EngUpsertAuthor)
    \/ EngOnly(EngUpsertMention)
    \/ EngOnly(EngCommit)
    \/ EngOnly(EngFail)
    \/ /\ clock % (COOLDOWN_SEC + 1) = 0
       /\ clock + COOLDOWN_SEC <= MaxSeconds
       /\ Tick(COOLDOWN_SEC)
    \/ /\ clock % (COOLDOWN_SEC + 1) = COOLDOWN_SEC
       /\ clock < MaxSeconds
       /\ Tick(1)

SpecIngest == IngestInit /\ [][IngestNext]_vars

\* ------------------------------------------------ specification of the opt-in
\* number of messages and of clock steps in the model of the opt-in
MaxWatchEvents == 2
MaxWatchTicks == 2

\* Member 1 writes and on_message runs as a whole (transaction, content
\* signal update on a worker thread, alert check, engagement call), the clock
\* advances, and an administrator opts members in at any time.
WatchInit == AlertInit

WatchNext ==
    \/ /\ nEvents < MaxWatchEvents
       /\ engTask.pc = "idle"
       /\ SigEnv(MsgArrive(1) /\ tasks'[1].text \in AlertTexts /\ tasks'[1].user = 1)
    \/ SigEnv(MsgUpsertUser(1))
    \/ SigEnv(MsgProcessNewMessage(1))
    \/ MsgCommitEngage /\ engTask'.mentions \in IngestMentions
    \/ \E s \in Workers : AiEnsure(s)
    \/ \E s \in Workers : AiSelect(s)
    \/ \E s \in Workers : AiInsert(s)
    \/ \E s \in Workers : AiCommit(s)
    \/ \E s \in Workers : AiFail(s)
    \/ \E s \in Workers : AlertCheckEngage(s) /\ engTask'.mentions \in IngestMentions
    \/ EngOnly(EngEnsureUser)
    \/ EngOnly(EngReadActivity)
    \/ EngOnly(EngReadDaily)
    \/ EngOnly(EngUpsertAuthor)
    \/ EngOnly(EngUpsertMention)
    \/ EngOnly(EngCommit)
    \/ EngOnly(EngFail)
    \/ \E u \in Users : WatchUser(u)
    \/ clock < MaxWatchTicks * TickSeconds /\ Tick(TickSeconds)

SpecWatch == WatchInit /\ [][WatchNext]_vars

\* ------------------------------------------------------ !rank (rank_system.py)
\* Scores are rationals <<num, den>> with den >= 1, engagement scores are in
\* tenths and toxicity levels in units of 1 / TOX_ONE.
FracLess(a, b) == a[1] * b[2] < b[1] * a[2]
FracLeq(a, b) == a[1] * b[2] <= b[1] * a[2]

\* number of members of the guild in the ranking model
MaxMembers == 3
\* number of !rank commands in a run
MaxRanks == 1
Members == 1..MaxMembers
\* engagement scores of stored rows (0.6, 1.0, 1.2, 1.4); a member without a
\* row counts as 0
EngScores == {6, 10, 12, 14}
\* stored toxicity levels (a member without a row counts as 0); the last two
\* are outside [0, 1], which no update stores but which the score has to
\* withstand
ToxLevels == {Tenths(5), Tenths(15), 0 - Tenths(5)}

\* TIERS
TIERS == << [name |-> "Mythic",   min_score |-> 90],
            [name |-> "Diamond",  min_score |-> 80],
            [name |-> "Platinum", min_score |-> 70],
            [name |-> "Gold",     min_score |-> 60],
            [name |-> "Silver",   min_score |-> 45],
            [name |-> "Bronze",   min_score |-> 0] >>

\* score >= t.min_score, score < t.min_score
MeetsTier(score, i) == score[1] >= TIERS[i].min_score * score[2]

RECURSIVE PickFrom(_, _)
PickFrom(score, i) ==
    IF i > Len(TIERS) THEN TIERS[Len(TIERS)].name
    ELSE IF MeetsTier(score, i) THEN TIERS[i].name
    ELSE PickFrom(score, i + 1)

PickTierStrict(score) ==
    LET S == {i \in 1..Len(TIERS) : score[1] > TIERS[i].min_score * score[2]}
    IN IF S = {} THEN "Bronze" ELSE TIERS[CHOOSE i \in S : \A j \in S : i <= j].name

\* pick_tier: the first tier of the list whose min_score the score reaches
PickTier(score) == PickFrom(score, 1)

SeqMin(values) == CHOOSE v \in {values[i] : i \in DOMAIN values} :
                     \A i \in DOMAIN values : v <= values[i]
SeqMax(values) == CHOOSE v \in {values[i] : i \in DOMAIN values} :
                     \A i \in DOMAIN values : v >= values[i]

MinmaxNormNoMiddle(values, x) ==
    IF values = <<>> THEN <<0, 1>>
    ELSE IF SeqMax(values) <= SeqMin(values) THEN <<0, 1>>
    ELSE LET q == Reduce((x - SeqMin(values)) * 100, SeqMax(values) - SeqMin(values))
         IN IF q[1] < 0 THEN <<0, 1>> ELSE IF q[1] > 100 * q[2] THEN <<100, 1>> ELSE q

\* _minmax_norm
MinmaxNorm(values, x) ==
    IF values = <<>> THEN <<0, 1>>
    ELSE LET vmin == SeqMin(values)
             vmax == SeqMax(values)
         IN IF vmax <= vmin THEN <<50, 1>>
            ELSE LET q == Reduce((x - vmin) * 100, vmax - vmin)
                 IN IF q[1] < 0 THEN <<0, 1>>
                    ELSE IF q[1] > 100 * q[2] THEN <<100, 1>>
                    ELSE q

ScoreCombinedUnclamped(eng_norm, tox) ==
    LET positivity == Reduce((TOX_ONE - tox) * 100, TOX_ONE)
    IN Reduce(7 * eng_norm[1] * positivity[2] + 3 * positivity[1] * eng_norm[2],
              10 * eng_norm[2] * positivity[2])

\* _score_combined
ScoreCombined(eng_norm, tox) ==
    LET positivity == Reduce(Max(0, Min(TOX_ONE, TOX_ONE - tox)) * 100, TOX_ONE)
    IN Reduce(7 * eng_norm[1] * positivity[2] + 3 * positivity[1] * eng_norm[2],
              10 * eng_norm[2] * positivity[2])

\* _fetch_all_profiles: one row (user_id, engagement_score, toxicity_level)
\* for every users row, a missing or NULL value read as 0.0; the query has no
\* ORDER BY, so the rows come in some order of the members
FetchAllProfiles(order) ==
    [i \in DOMAIN order |->
        LET u == order[i] IN
        << u,
           IF u \in DOMAIN engagement THEN engagement[u].engagement_score ELSE 0,
           IF u \in DOMAIN ai /\ ai[u].toxicity_level # NullLevel
           THEN ai[u].toxicity_level ELSE 0 >>]

\* the orders in which a query may return the rows of the set S
Orders(S) == {o \in [1..Cardinality(S) -> S] :
                \A i \in DOMAIN o : \A j \in DOMAIN o : i # j => o[i] # o[j]}

RECURSIVE InsertFirst(_, _)
InsertFirst(sorted, e) ==
    IF sorted = <<>> THEN <<e>>
    ELSE IF FracLeq(Head(sorted)[2], e[2]) THEN <<e>> \o sorted
    ELSE <<Head(sorted)>> \o InsertFirst(Tail(sorted), e)

RECURSIVE SortDescUnstable(_)
SortDescUnstable(seq) ==
    IF seq = <<>> THEN <<>>
    ELSE InsertFirst(SortDescUnstable(SubSeq(seq, 1, Len(seq) - 1)), seq[Len(seq)])

\* e put into the sorted list after every entry whose score is not smaller
RECURSIVE InsertDesc(_, _)
InsertDesc(sorted, e) ==
    IF sorted = <<>> THEN <<e>>
    ELSE IF FracLess(Head(sorted)[2], e[2]) THEN <<e>> \o sorted
    ELSE <<Head(sorted)>> \o InsertDesc(Tail(sorted), e)

\* combined_all.sort(key=lambda x: x[1], reverse=True): stable, entries of
\* equal score stay in the order of the list
RECURSIVE SortDesc(_)
SortDesc(seq) ==
    IF seq = <<>> THEN <<>>
    ELSE InsertDesc(SortDesc(SubSeq(seq, 1, Len(seq) - 1)), seq[Len(seq)])

\* 1 + next((i for i, (uid, sc) in enumerate(combined_all) if uid == user_id),
\*          len(combined_all) - 1)
Position(combined_all, user_id) ==
    LET S == {i \in DOMAIN combined_all : combined_all[i][1] = user_id}
    IN IF S = {} THEN Len(combined_all)
       ELSE CHOOSE i \in S : \A j \in S : i <= j

NextTierFirst(score) ==
    LET S == {i \in 1..Len(TIERS) : ~MeetsTier(score, i)}
    IN IF S = {} THEN "max" ELSE TIERS[CHOOSE i \in S : \A j \in S : i <= j].name

\* "for t in TIERS: if score_user < t.min_score: next_tier = t", from tier i on
RECURSIVE NextTierLoop(_, _, _)
NextTierLoop(score, i, next_tier) ==
    IF i > Len(TIERS) THEN next_tier
    ELSE NextTierLoop(score, i + 1,
                      IF ~MeetsTier(score, i) THEN TIERS[i].name ELSE next_tier)

\* the next-tier hint of cmd_rank; "max" stands for "Tu es au rang maximal"
NextTier(score) == NextTierLoop(score, 1, "max")

\* cmd_rank for the member target (the author or the mentioned member)
Rank(target, order) ==
    LET profiles == FetchAllProfiles(order)
        eng_values == [i \in DOMAIN profiles |-> profiles[i][2]]
        mine == {i \in DOMAIN profiles : profiles[i][1] = target}
        eng_user == IF mine = {} THEN 0 ELSE profiles[CHOOSE i \in mine : TRUE][2]
        tox_user == IF mine = {} THEN 0 ELSE profiles[CHOOSE i \in mine : TRUE][3]
        eng_norm == MinmaxNorm(eng_values, eng_user)
        score_user == ScoreCombined(eng_norm, tox_user)
        combined_all == SortDesc([i \in DOMAIN profiles |->
                          << profiles[i][1],
                             ScoreCombined(MinmaxNorm(eng_values, profiles[i][2]),
                                           profiles[i][3]) >>])
    IN
    /\ order \in Orders(users)
    /\ rankDone.n < MaxRanks
    /\ rankDone' = IF profiles = <<>>
                   THEN [NoRankDone EXCEPT !.target = target, !.n = rankDone.n + 1]
                   ELSE [valid |-> TRUE, target |-> target, profiles |-> profiles,
                         eng_norm |-> eng_norm, score |-> score_user,
                         tier |-> PickTier(score_user),
                         position |-> Position(combined_all, target),
                         total |-> Len(combined_all), next |-> NextTier(score_user),
                         n |-> rankDone.n + 1]
    /\ UNCHANGED <<actVars, engVars, sigVars, alertVars, snapDone, sentDone, ingestVars, voiceVars, cmdVars>>

\* The store holds users rows of some members, each with or without a
\* user_engagement row and a user_ai_analysis row; !rank commands are issued,
\* also by a member that has no users row yet.
RankInit ==
    /\ users \in SUBSET Members
    /\ guildRow = (users # {})
    /\ activity = EmptyFn
    /\ daily = EmptyFn
    /\ messages = EmptyFn
    /\ guildFresh = FALSE
    /\ userFresh = {}
    /\ tasks = [t \in Tasks |-> IdleTask]
    /\ nEvents = 0
    /\ today = 1
    /\ committedMsgs = [u \in Users |-> 0]
    /\ sumLen = [u \in Users |-> 0]
    /\ committedGiven = [u \in Users |-> 0]
    /\ committedRecv = [u \in Users |-> 0]
    /\ committedIncr = [k \in Users \X Days |-> 0]
    /\ \E withEng \in SUBSET users :
         engagement \in [withEng -> {[mentions_made |-> 0, mentions_received |-> 1,
                                      threads_created |-> 0, invitations_sent |-> 0,
                                      active_days_in_month |-> 0, streak_days |-> 0,
                                      engagement_score |-> e] : e \in EngScores}]
    /\ engTask = IdleEng
    /\ nEng = 0
    /\ engDone = NoEngDone
    /\ \E withAi \in SUBSET users :
         ai \in [withAi -> {[DefaultAi EXCEPT !.toxicity_level = x] : x \in ToxLevels}]
    /\ aiTasks = [s \in AiSlots |-> IdleAi]
    /\ rebuild = IdleRebuild
    /\ nUpdates = 0
    /\ nRebuilds = 0
    /\ userCooldown = EmptyFn
    /\ aiDone = NoAiDone
    /\ rebuildDone = NoRebuildDone
    /\ AlertIdle
    /\ ViewIdle
    /\ IngestIdle
    /\ VoiceIdle
    /\ CmdIdle

RankNext ==
    \E target \in Members : \E order \in Orders(users) : Rank(target, order)

SpecRank == RankInit /\ [][RankNext]_vars

\* --------------------------------------- get_user_snapshot (user_profile.py)
\* the day on which the snapshots of the model are taken
SnapToday == 14
\* number of get_user_snapshot calls in a run
MaxSnaps == 1
\* the days that have user_message_daily rows in the snapshot model: the day
\* before the previous window, the first and the last day of the previous
\* window, the first and the last day of the current window
SnapDays == {SnapToday - 14, SnapToday - 13, SnapToday - 7, SnapToday - 6, SnapToday}
\* the counts of those rows
SnapCounts == {5, 10}

RECURSIVE SumCounts(_, _)
SumCounts(rows, keys) ==
    IF keys = {} THEN 0
    ELSE LET k == CHOOSE x \in keys : TRUE
         IN rows[k] + SumCounts(rows, keys \ {k})

\* _sum_umd: coalesce(sum(count), 0) over the rows of the user with
\* d0 <= day <= d1
SumUmd(u, d0, d1) ==
    SumCounts(daily, {k \in DOMAIN daily : k[1] = u /\ k[2] >= d0 /\ k[2] <= d1})

TrendDeltaNoGuard(sum_curr, sum_prev) ==
    Reduce((sum_curr - sum_prev) * 100, Max(1, sum_prev))

\* delta7 of get_user_snapshot
TrendDelta(sum_curr, sum_prev) ==
    IF sum_curr = 0 /\ sum_prev = 0 THEN <<0, 1>>
    ELSE IF sum_prev = 0 THEN <<100, 1>>
    ELSE Reduce((sum_curr - sum_prev) * 100, Max(1, sum_prev))

SnapshotCreating(u) ==
    LET sum_curr == SumUmd(u, today - 6, today)
        sum_prev == SumUmd(u, today - 13, today - 7)
    IN
    /\ snapDone.n < MaxSnaps
    /\ snapDone' = [valid |-> TRUE, user |-> u, sum_curr |-> sum_curr,
                    sum_prev |-> sum_prev, delta7 |-> TrendDelta(sum_curr, sum_prev),
                    n |-> snapDone.n + 1]
    /\ ai' = IF u \in DOMAIN ai THEN ai ELSE Put(ai, u, DefaultAi)
    /\ UNCHANGED <<actVars, engVars, alertVars, rankDone, sentDone, ingestVars, voiceVars, cmdVars, aiTasks, rebuild,
                   nUpdates, nRebuilds, userCooldown, aiDone, rebuildDone>>

\* get_user_snapshot, the part that computes the 7-day trend
Snapshot(u) ==
    LET sum_curr == SumUmd(u, today - 6, today)
        sum_prev == SumUmd(u, today - 13, today - 7)
    IN
    /\ snapDone.n < MaxSnaps
    /\ snapDone' = [valid |-> TRUE, user |-> u, sum_curr |-> sum_curr,
                    sum_prev |-> sum_prev, delta7 |-> TrendDelta(sum_curr, sum_prev),
                    n |-> snapDone.n + 1]
    /\ UNCHANGED <<actVars, engVars, sigVars, alertVars, rankDone, sentDone, ingestVars, voiceVars, cmdVars>>

\* The store holds daily counters of user 1 on some of the days SnapDays;
\* snapshots of the members are taken on day SnapToday. The other tables play
\* no part in the trend and are left empty.
SnapInit ==
    /\ users = {1}
    /\ guildRow = TRUE
    /\ activity = EmptyFn
    /\ \E days \in SUBSET SnapDays : daily \in [{1} \X days -> SnapCounts]
    /\ messages = EmptyFn
    /\ guildFresh = FALSE
    /\ userFresh = {}
    /\ tasks = [t \in Tasks |-> IdleTask]
    /\ nEvents = 0
    /\ today = SnapToday
    /\ committedMsgs = [u \in Users |-> 0]
    /\ sumLen = [u \in Users |-> 0]
    /\ committedGiven = [u \in Users |-> 0]
    /\ committedRecv = [u \in Users |-> 0]
    /\ committedIncr = [k \in Users \X Days |-> 0]
    /\ EngIdle
    /\ SigIdle
    /\ AlertIdle
    /\ ViewIdle
    /\ IngestIdle
    /\ VoiceIdle
    /\ CmdIdle

SnapNext == \E u \in Users : Snapshot(u)

SpecSnapshot == SnapInit /\ [][SnapNext]_vars

\* ------------------------------------- the sentiment backends of analyze_text
\* Sentiment scores are in hundredths. The values that a backend can return
\* in the model: both ends, both thresholds and their neighbours.
SentScores == {0 - 100, 0 - 26, 0 - 25, 0, 10, 25, 26, 100}
SentTexts == {"merci", "nul", "python"}
\* the labels of the replies of the remote model ("mixed": any other string;
\* a reply without the key counts as "neutral", the default of data.get)
OpenaiLabels == {"positive", "neutral", "negative", "mixed"}
HfLabels == {"POSITIVE", "NEGATIVE"}
\* the confidence of the HuggingFace pipeline (in hundredths)
HfScores == {25, 26, 60, 100}

\* "positive" if score > 0.25 else "negative" if score < -0.25 else "neutral"
LabelOf(score) ==
    IF score > 25 THEN "positive"
    ELSE IF score < 0 - 25 THEN "negative"
    ELSE "neutral"

\* sentiment_local: the compound score of VADER when it could be loaded, else
\* the score of the lexicons; the label by the thresholds
SentimentLocalPair(text, hasVader, compound) ==
    LET pos == PosHits(text)
        neg == NegHits(text)
        score == IF hasVader THEN compound
                 ELSE IF pos + neg = 0 THEN 0
                 ELSE ((pos - neg) * 100) \div Max(1, pos + neg)
    IN <<score, LabelOf(score)>>

\* sentiment_hf: the confidence, signed by the label of the pipeline
SentimentHf(label, score) ==
    LET signed == IF label = "POSITIVE" THEN score ELSE 0 - score
    IN <<signed, LabelOf(signed)>>

\* sentiment_openai: without a client, or when the request or the parsing of
\* the reply raises, sentiment_local; else the score and the label of the
\* reply, a label that is none of the three being replaced by "neutral"
SentimentOpenai(text, ok, label, score, hasVader, compound) ==
    IF ~ok THEN SentimentLocalPair(text, hasVader, compound)
    ELSE <<score, IF label \in {"positive", "neutral", "negative"} THEN label
                  ELSE "neutral">>

\* analyze_text with AI_MODE = "local" (the default)
ClassifyLocal ==
    /\ \E text \in SentTexts, hasVader \in BOOLEAN, compound \in SentScores :
         LET r == SentimentLocalPair(text, hasVader, compound)
         IN sentDone' = [valid |-> TRUE, mode |-> "local", text |-> text,
                         score |-> r[1], label |-> r[2]]
    /\ UNCHANGED <<actVars, engVars, sigVars, alertVars, rankDone, snapDone, ingestVars, voiceVars, cmdVars>>

\* analyze_text with AI_MODE = "hf"
ClassifyHf ==
    /\ \E text \in SentTexts, label \in HfLabels, score \in HfScores :
         LET r == SentimentHf(label, score)
         IN sentDone' = [valid |-> TRUE, mode |-> "hf", text |-> text,
                         score |-> r[1], label |-> r[2]]
    /\ UNCHANGED <<actVars, engVars, sigVars, alertVars, rankDone, snapDone, ingestVars, voiceVars, cmdVars>>

\* analyze_text with AI_MODE = "openai"
ClassifyOpenai ==
    /\ \E text \in SentTexts, ok \in BOOLEAN, label \in OpenaiLabels,
          score \in SentScores, hasVader \in BOOLEAN, compound \in SentScores :
         LET r == SentimentOpenai(text, ok, label, score, hasVader, compound)
         IN sentDone' = [valid |-> TRUE, mode |-> "openai", text |-> text,
                         score |-> r[1], label |-> r[2]]
    /\ UNCHANGED <<actVars, engVars, sigVars, alertVars, rankDone, snapDone, ingestVars, voiceVars, cmdVars>>

\* Texts are classified one after the other, by any of the three backends;
\* the store plays no part.
SentInit ==
    /\ StoreInit
    /\ users = {}
    /\ guildRow = FALSE
    /\ EngIdle
    /\ SigIdle
    /\ AlertIdle
    /\ ViewIdle
    /\ IngestIdle
    /\ VoiceIdle
    /\ CmdIdle

SentNext ==
    \/ ClassifyLocal
    \/ ClassifyHf
    \/ ClassifyOpenai

SpecSentiment == SentInit /\ [][SentNext]_vars

\* ------------------------------------------------- the reporting commands
\* The store holds rows in every table that the reports read: user_activity
\* and daily counters of member 1, engagement rows and content signal rows of
\* some members, member 1 watched or not. One !rank and one snapshot (!user)
\* are run, in either order.
ReportInit ==
    /\ users = {1, 2}
    /\ guildRow = TRUE
    /\ activity \in {EmptyFn, [u \in {1} |-> [message_count |-> 1, avg |-> <<6, 1>>,
                                   channel |-> "general", reaction_count |-> 0,
                                   received_reactions |-> 0]]}
    /\ \E days \in SUBSET {SnapToday - 7, SnapToday} : daily = [k \in {1} \X days |-> 5]
    /\ messages = EmptyFn
    /\ guildFresh = FALSE
    /\ userFresh = {}
    /\ tasks = [t \in Tasks |-> IdleTask]
    /\ nEvents = 0
    /\ today = SnapToday
    /\ committedMsgs = [u \in Users |-> 0]
    /\ sumLen = [u \in Users |-> 0]
    /\ committedGiven = [u \in Users |-> 0]
    /\ committedRecv = [u \in Users |-> 0]
    /\ committedIncr = [k \in Users \X Days |-> 0]
    /\ \E withEng \in SUBSET users :
         engagement \in [withEng -> {[mentions_made |-> 0, mentions_received |-> 1,
                                      threads_created |-> 0, invitations_sent |-> 0,
                                      active_days_in_month |-> 0, streak_days |-> 0,
                                      engagement_score |-> e] : e \in {6, 14}}]
    /\ engTask = IdleEng
    /\ nEng = 0
    /\ engDone = NoEngDone
    /\ \E withAi \in SUBSET users :
         ai = [u \in withAi |-> [DefaultAi EXCEPT !.toxicity_level = Tenths(5)]]
    /\ aiTasks = [s \in AiSlots |-> IdleAi]
    /\ rebuild = IdleRebuild
    /\ nUpdates = 0
    /\ nRebuilds = 0
    /\ userCooldown = EmptyFn
    /\ aiDone = NoAiDone
    /\ rebuildDone = NoRebuildDone
    /\ monitored \in {EmptyFn, [u \in {1} |-> [threshold |-> Tenths(8),
                                                last_alert |-> NoAlert,
                                                added_at |-> 0]]}
    /\ clock = 0
    /\ notifications = [u \in Users |-> <<>>]
    /\ checkDone = NoCheckDone
    /\ watchDone = NoWatchDone
    /\ ViewIdle
    /\ IngestIdle
    /\ VoiceIdle
    /\ CmdIdle

ReportNext ==
    \/ \E target \in Members : \E order \in Orders(users) : Rank(target, order)
    \/ \E u \in Users : Snapshot(u)

SpecReport == ReportInit /\ [][ReportNext]_vars

\* ------------------------------------------------------------ claims C1 - C3
DailyCount(k) == IF k \in DOMAIN daily THEN daily[k] ELSE 0

\* C1: for every key (user, day), the committed daily count equals the number
\* of committed increments of that key, whatever the interleaving of the
\* message handlers: no increment is lost or applied twice, and a row is
\* created with count 1.
C1_DailyCountExact ==
    \A k \in Users \X Days : DailyCount(k) = committedIncr[k]

\* an increment of an existing counter row is about to commit while another
\* message of the same user is in flight
C1_Witness ==
    \E t \in Tasks, t2 \in Tasks, k \in Users \X Days :
        /\ t # t2
        /\ tasks[t].kind = "msg" /\ tasks[t].pc = "commit"
        /\ k \in DOMAIN tasks[t].pDaily /\ k \in DOMAIN daily
        /\ tasks[t].pDaily[k] = daily[k] + 1
        /\ tasks[t2].kind = "msg" /\ tasks[t2].user = k[1]

ActField(u, f) == IF u \in DOMAIN activity THEN activity[u][f] ELSE 0

\* C2: the committed counters of every user_activity row equal the number of
\* committed events of their kind, for any interleaving of the handlers.
C2_NoLostUpdate ==
    \A u \in Users :
        /\ ActField(u, "message_count") = committedMsgs[u]
        /\ ActField(u, "reaction_count") = committedGiven[u]
        /\ ActField(u, "received_reactions") = committedRecv[u]

\* a reaction holds the lock of a row that already counts a message, and a
\* message handler of the same user waits for it
C2_Witness ==
    \E t \in Tasks, t2 \in Tasks, u \in Users :
        /\ t # t2
        /\ tasks[t].kind = "react" /\ u \in DOMAIN tasks[t].pAct
        /\ tasks[t2].kind = "msg" /\ tasks[t2].pc = "activity" /\ tasks[t2].user = u
        /\ u \in DOMAIN activity /\ activity[u].message_count >= 1

\* C3: average_message_length * message_count is the sum of the lengths of
\* the committed messages of the user (exact arithmetic), also for a row
\* that a reaction created with message_count = 0.
C3_OnlineMean ==
    \A u \in Users :
        /\ u \in DOMAIN activity =>
              /\ activity[u].avg[2] >= 1
              /\ activity[u].avg[1] * activity[u].message_count
                    = sumLen[u] * activity[u].avg[2]
              /\ (activity[u].message_count = 1 => activity[u].avg = <<sumLen[u], 1>>)
        /\ u \notin DOMAIN activity => sumLen[u] = 0

\* two messages of lengths 0 and 3 on a row that also counts a reaction
C3_Witness ==
    \E u \in Users :
        /\ u \in DOMAIN activity
        /\ activity[u].message_count = 2
        /\ activity[u].avg = <<3, 2>>
        /\ activity[u].reaction_count + activity[u].received_reactions >= 1

\* ------------------------------------------------------------ claims C4 - C5
\* C4: after a call that committed, the author's stored engagement_score is
\* 0.5*messages + 1.0*reactions_received + 0.2*reactions_made + 3.0*active_days
\* + 2.0*streak_days of the values read in that call (in tenths), whatever the
\* score stored before; messages=10, received=5, made=2, active_days=3,
\* streak=2 gives 23.4.
C4_ScoreFormula ==
    /\ engDone.valid =>
         /\ engDone.author \in DOMAIN engagement
         /\ engagement[engDone.author].engagement_score =
               5 * engDone.messages + 10 * engDone.recv + 2 * engDone.made
                 + 30 * engDone.active + 20 * engDone.streak
         /\ engagement[engDone.author].active_days_in_month = engDone.active
         /\ engagement[engDone.author].streak_days = engDone.streak
    /\ EngagementScore(10, 2, 5, 3, 2) = 234

\* a second call of an author whose stored score was non-zero and changes,
\* with more reactions made than received
C4_Witness ==
    /\ engDone.valid
    /\ engDone.prevScore > 0
    /\ engagement[engDone.author].engagement_score # engDone.prevScore
    /\ engDone.made > engDone.recv

\* C5: the streak_days stored by a call is the number of consecutive calendar
\* days ending today that have a daily count > 0 in the store, counted back
\* to the first day without a count.
C5_StreakIsConsecutiveDays ==
    engDone.valid =>
        engagement[engDone.author].streak_days = engDone.trueStreak

\* ----------------------------------------------------------- claims C6 - C9
\* C6: an analyze_and_update call that commits, and whose row was not written
\* by another session between its read and its commit, stores
\* min(1, p + (n - p) * 1.8) for a reading n > p and max(0, p + (n - p) * 0.3)
\* otherwise, p being the level it read and n in [0, 1]; a row that the call
\* had to create and a NULL level count as p = 0; p = 0.2, n = 0.9 gives 1.0
\* and p = 0.8, n = 0.1 gives 0.59.
C6_ToxicityFusion ==
    /\ (aiDone.valid /\ aiDone.isolated) =>
         LET p == aiDone.prev
             n == aiDone.reading
         IN /\ n \in 0..TOX_ONE
            /\ aiDone.created => p = 0
            /\ ai[aiDone.user].toxicity_level =
                  IF n > p THEN Min(TOX_ONE, p + ((n - p) * 18) \div 10)
                  ELSE Max(0, p + ((n - p) * 3) \div 10)
    /\ ToxFusion(Tenths(2), Tenths(9)) = TOX_ONE
    /\ ToxFusion(Tenths(8), Tenths(1)) = 59 * (TOX_ONE \div 100)
    /\ \A k \in 0..10 : ToxFusion(NullLevel, Tenths(k)) = ToxFusion(0, Tenths(k))

\* a call has raised the level above its reading without reaching 1
\* (0 and 0.3 give 0.54)
C6_Witness ==
    /\ aiDone.valid /\ aiDone.isolated
    /\ aiDone.reading > aiDone.prev
    /\ ai[aiDone.user].toxicity_level > aiDone.reading
    /\ ai[aiDone.user].toxicity_level < TOX_ONE

\* C7: the toxicity_level of every user_ai_analysis row is within [0, 1] in
\* every reachable state, whatever analyze_and_update and rebuild_ai_for_user
\* calls have run.
C7_ToxicityInRange ==
    \A u \in DOMAIN ai : ai[u].toxicity_level >= 0 /\ ai[u].toxicity_level <= TOX_ONE

\* after a rebuild, a call was held at 1 by the clamp
C7_Witness ==
    /\ nRebuilds > 0 /\ rebuild.pc = "idle"
    /\ aiDone.valid
    /\ aiDone.prev + ((aiDone.reading - aiDone.prev) * 18) \div 10 > TOX_ONE
    /\ ai[aiDone.user].toxicity_level = TOX_ONE

\* C8: a rebuild_ai_for_user that follows a completed rebuild of the same user,
\* with the same messages and no content signal update in between, leaves the
\* row as the first rebuild left it.
C8_RebuildIdempotent ==
    (rebuildDone.valid /\ rebuildDone.second) => ai[rebuildDone.user] = rebuildDone.first

\* C9: after a completed rebuild_ai_for_user the row equals the defaults with
\* analyze_and_update applied to every stored message of the user in ascending
\* order of timestamp, whatever the row was before the rebuild.
C9_RebuildIsReplayFromDefaults ==
    rebuildDone.valid => ai[rebuildDone.user] = rebuildDone.expected

\* ----------------------------------------------------------------- claim C10
\* the instants of the alerts of every user are at least two hours apart
AlertsSpaced ==
    \A u \in Users : \A i \in 1..Len(notifications[u]) : \A j \in 1..Len(notifications[u]) :
        i < j => notifications[u][j] - notifications[u][i] >= AlertCooldown

\* C10: a check sends a notification if and only if the user is watched, the
\* toxicity level is at least the threshold and last_alert is null or at
\* least two hours old; the notifications of a user are at least two hours
\* apart.
C10_AlertIff ==
    /\ checkDone.valid =>
         (checkDone.sent <=> (checkDone.watched /\ checkDone.breach /\ checkDone.cooled))
    /\ AlertsSpaced

\* ----------------------------------------------------------------- claim C11
\* C11: a check that finds the level below the threshold, or that falls within
\* two hours of last_alert, leaves the monitored entries as they are, and
\* last_alert changes only in a check of that user that finds the level at or
\* above the threshold with last_alert null or at least two hours old.
C11_NoRearm ==
    [][\A s \in AiSlots :
         LET u == aiTasks[s].user
             checks == aiTasks[s].pc = "check" /\ aiTasks'[s].pc # "check"
             thr == IF monitored[u].threshold = 0 THEN Tenths(8) ELSE monitored[u].threshold
             below == u \notin DOMAIN ai \/ ai[u].toxicity_level < thr
             recent == /\ monitored[u].last_alert # NoAlert
                       /\ clock - monitored[u].last_alert < AlertCooldown
         IN /\ (checks /\ (u \notin DOMAIN monitored \/ below \/ recent))
                  => monitored' = monitored
            /\ \A v \in DOMAIN monitored :
                  (v \in DOMAIN monitored' /\ monitored'[v].last_alert # monitored[v].last_alert)
                     => \E r \in AiSlots :
                          /\ aiTasks[r].pc = "check" /\ aiTasks'[r].pc # "check"
                          /\ aiTasks[r].user = v
                          /\ v \in DOMAIN ai
                          /\ ai[v].toxicity_level >=
                                (IF monitored[v].threshold = 0 THEN Tenths(8)
                                 ELSE monitored[v].threshold)
                          /\ \/ monitored[v].last_alert = NoAlert
                             \/ clock - monitored[v].last_alert >= AlertCooldown]_vars

\* a check has found the level of a watched user below the threshold at least
\* two hours after an alert, and last_alert is still that of the alert
C11_Witness ==
    /\ checkDone.valid /\ checkDone.watched /\ checkDone.known
    /\ ~checkDone.breach /\ checkDone.cooled
    /\ monitored[checkDone.user].last_alert # NoAlert
    /\ monitored[checkDone.user].last_alert < checkDone.at

C13_CompositeScore ==
    rankDone.valid =>
        LET P == rankDone.profiles
            values == [i \in DOMAIN P |-> P[i][2]]
        IN \A i \in DOMAIN P :
             LET en == MinmaxNorm(values, values[i])
                 one_minus == TOX_ONE - P[i][3]
                 c == IF one_minus < 0 THEN 0
                      ELSE IF one_minus > TOX_ONE THEN TOX_ONE ELSE one_minus
                 pos == Reduce(c * 100, TOX_ONE)
                 sc == ScoreCombined(en, P[i][3])
             IN /\ sc[2] >= 1
                /\ sc[1] * 10 * en[2] * pos[2]
                     = (7 * en[1] * pos[2] + 3 * pos[1] * en[2]) * sc[2]
                /\ sc[1] >= 0 /\ sc[1] <= 100 * sc[2]
                /\ P[i][1] = rankDone.target => rankDone.score = sc

\* the target has a stored toxicity of 1.5 and a normalised engagement
\* strictly between 0 and 100
C13_Witness ==
    /\ rankDone.valid
    /\ \E i \in DOMAIN rankDone.profiles :
          /\ rankDone.profiles[i][1] = rankDone.target
          /\ rankDone.profiles[i][3] > TOX_ONE
    /\ rankDone.eng_norm[2] > 1
    /\ rankDone.score[1] > 0

\* C14: for every score s in [0, 100], pick_tier(s) is a tier whose min_score
\* is at most s, and no tier with a larger min_score has min_score <= s
\* (Mythic 90, Diamond 80, Platinum 70, Gold 60, Silver 45, Bronze 0); a
\* score equal to a min_score belongs to that tier. Checked for the score of
\* every !rank command and (evaluated once, in the empty store) for every
\* multiple of one half in [0, 100].
C14_HighestTierMet ==
    LET Right(s, name) ==
            \E i \in 1..Len(TIERS) :
               /\ TIERS[i].name = name
               /\ TIERS[i].min_score * s[2] <= s[1]
               /\ \A j \in 1..Len(TIERS) :
                     TIERS[j].min_score > TIERS[i].min_score
                        => TIERS[j].min_score * s[2] > s[1]
               /\ \A j \in 1..Len(TIERS) : TIERS[j].name = name => j = i
    IN /\ rankDone.valid => /\ rankDone.tier = PickTier(rankDone.score)
                            /\ Right(rankDone.score, rankDone.tier)
       /\ (rankDone.n = 0 /\ users = {}) =>
            /\ \A h \in 0..200 : Right(<<h, 2>>, PickTier(<<h, 2>>))
            /\ [i \in 1..6 |-> TIERS[i].min_score] = <<90, 80, 70, 60, 45, 0>>
            /\ [k \in {0, 45, 60, 70, 80, 90, 100} |-> PickTier(<<k, 1>>)]
                 = [k \in {0, 45, 60, 70, 80, 90, 100} |->
                      CASE k = 0 -> "Bronze" [] k = 45 -> "Silver" [] k = 60 -> "Gold"
                        [] k = 70 -> "Platinum" [] k = 80 -> "Diamond"
                        [] OTHER -> "Mythic"]

\* a member whose score is exactly 80 is shown as Diamond
C14_Witness ==
    /\ rankDone.valid
    /\ rankDone.score = <<80, 1>>
    /\ rankDone.tier = "Diamond"

\* the composite score of the i-th row of the population P
ScoreOfRow(P, i) ==
    ScoreCombined(MinmaxNorm([k \in DOMAIN P |-> P[k][2]], P[i][2]), P[i][3])

\* C15: the rank of a member is its 1-based position after sorting the
\* population by composite score, descending: a member with a strictly higher
\* score has a strictly smaller rank, members with equal scores keep the
\* order of the population, and the rank shown is within 1..N.
C15_LeaderboardRank ==
    rankDone.valid =>
        LET P == rankDone.profiles
            sorted == SortDesc([i \in DOMAIN P |-> <<P[i][1], ScoreOfRow(P, i)>>])
            pos(i) == Position(sorted, P[i][1])
        IN /\ rankDone.total = Len(P)
           /\ rankDone.position \in 1..rankDone.total
           /\ \A i \in DOMAIN P :
                /\ pos(i) \in 1..Len(P)
                /\ P[i][1] = rankDone.target => rankDone.position = pos(i)
                /\ \A j \in DOMAIN P :
                      /\ FracLess(ScoreOfRow(P, j), ScoreOfRow(P, i)) => pos(i) < pos(j)
                      /\ (i < j /\ ~FracLess(ScoreOfRow(P, j), ScoreOfRow(P, i))
                                /\ ~FracLess(ScoreOfRow(P, i), ScoreOfRow(P, j)))
                            => pos(i) < pos(j)

\* of three members, the target has the same score as a member that comes
\* before it in the population and a lower score than the third, which comes
\* after it: the target is third
C15_Witness ==
    /\ rankDone.valid
    /\ rankDone.total = 3
    /\ rankDone.profiles[2][1] = rankDone.target
    /\ ScoreOfRow(rankDone.profiles, 1) = ScoreOfRow(rankDone.profiles, 2)
    /\ FracLess(ScoreOfRow(rankDone.profiles, 2), ScoreOfRow(rankDone.profiles, 3))
    /\ rankDone.position = 3

\* C16: the next-tier hint names the tier with the smallest min_score strictly
\* greater than the score, which is the tier just above pick_tier(score) in
\* TIERS, and the "maximal rank" text is given exactly when the score is at
\* least 90, that is when pick_tier(score) is Mythic. Checked for the score of
\* every !rank command and (evaluated once, in the empty store) for every
\* multiple of one half in [0, 100].
C16_NextTierHint ==
    LET Index(name) == CHOOSE i \in 1..Len(TIERS) : TIERS[i].name = name
        Right(s, next) ==
            /\ (next = "max") <=> (s[1] >= 90 * s[2])
            /\ (next = "max") <=> (PickTier(s) = "Mythic")
            /\ next # "max" =>
                  /\ \E i \in 1..Len(TIERS) : TIERS[i].name = next
                  /\ TIERS[Index(next)].min_score * s[2] > s[1]
                  /\ \A j \in 1..Len(TIERS) :
                        TIERS[j].min_score * s[2] > s[1]
                           => TIERS[j].min_score >= TIERS[Index(next)].min_score
                  /\ Index(next) = Index(PickTier(s)) - 1
    IN /\ rankDone.valid => /\ rankDone.next = NextTier(rankDone.score)
                            /\ Right(rankDone.score, rankDone.next)
       /\ (rankDone.n = 0 /\ users = {}) =>
            \A h \in 0..200 : Right(<<h, 2>>, NextTier(<<h, 2>>))

\* a Bronze member is told that Silver is next, a Mythic member would be told
\* nothing is
C16_Witness ==
    /\ rankDone.valid
    /\ rankDone.score[1] < 45 * rankDone.score[2]
    /\ rankDone.tier = "Bronze"
    /\ rankDone.next = "Silver"

C18_InferenceThrottle ==
    /\ [](\A u \in Users : \A i \in DOMAIN dispatched[u] : \A j \in DOMAIN dispatched[u] :
            i < j => dispatched[u][j] - dispatched[u][i] > 15)
    /\ [][LET u == tasks[1].user
              at == tasks[1].at
              k == <<u, tasks[1].day>>
              commits == /\ tasks[1].kind = "msg" /\ tasks[1].pc = "commit"
                         /\ tasks'[1].kind = "idle"
                         /\ committedMsgs'[u] = committedMsgs[u] + 1
              n == Len(dispatched[u])
              spaced == n = 0 \/ at - dispatched[u][n] > 15
              starts == \E s \in Workers :
                          /\ aiTasks[s].pc = "idle" /\ aiTasks'[s].pc # "idle"
                          /\ aiTasks'[s].origin = "message" /\ aiTasks'[s].user = u
          IN /\ commits =>
                  IF Len(tasks[1].text) >= 6 /\ spaced
                  THEN /\ dispatched' = [dispatched EXCEPT ![u] = Append(@, at)]
                       /\ starts
                  ELSE /\ dispatched' = dispatched
                       /\ aiTasks' = aiTasks
                       /\ k \in DOMAIN daily'
                       /\ daily'[k] = (IF k \in DOMAIN daily THEN daily[k] ELSE 0) + 1
                       /\ activity'[u].message_count
                            = (IF u \in DOMAIN activity THEN activity[u].message_count
                               ELSE 0) + 1
                       /\ engTask'.pc = "ensure" /\ engTask'.author = u
             /\ dispatched' # dispatched => commits]_vars

\* three messages of six characters created at 0, 15 and 16 seconds: the
\* second one was throttled and its engagement update has committed, the
\* third one was dispatched
C18_Witness ==
    /\ dispatched[1] = <<0, 16>>
    /\ committedMsgs[1] = 3
    /\ sumLen[1] = 18
    /\ nEng >= 1
    /\ engDone.valid /\ engDone.author = 1

\* an analyze_and_update that on_message has dispatched is running
Inferring(s) ==
    /\ aiTasks[s].origin = "message"
    /\ aiTasks[s].pc \in {"ensure", "analyze", "insert", "loaded"}

\* C19: at most MaxWorkers inferences run at once and, while the inference of
\* a message is running on a worker thread, every step of the transaction of
\* a later message can be taken: the handler starts, writes its rows and
\* commits without waiting for the inference to return (the commit of a
\* message that is itself dispatched needs a free worker of the model).
C19_IngestionNotBlocked ==
    /\ Cardinality({s \in Workers : Inferring(s)}) <= MaxWorkers
    /\ (\E s \in Workers : Inferring(s)) =>
         /\ (tasks[1].kind = "idle" /\ engTask.pc = "idle" /\ nEvents < MaxEvents)
               => ENABLED MsgArrive(1)
         /\ (tasks[1].kind = "msg" /\ tasks[1].pc = "user")
               => ENABLED MsgUpsertUser(1)
         /\ (tasks[1].kind = "msg" /\ tasks[1].pc = "activity")
               => ENABLED MsgProcessNewMessage(1)
         /\ (/\ tasks[1].kind = "msg" /\ tasks[1].pc = "commit"
             /\ \E r \in Workers : aiTasks[r].pc = "idle"
             /\ nUpdates < MaxUpdates)
               => ENABLED MsgCommitEngage

\* the inference dispatched for the first message has not yet taken a step,
\* and the transactions of two later messages have committed
C19_Witness ==
    /\ \E s \in Workers : Inferring(s) /\ aiTasks[s].pc = "ensure"
    /\ dispatched[1] = <<0>>
    /\ committedMsgs[1] = 3
    /\ activity[1].message_count = 3

\* the stored topics_of_interest of member u in the table a (no row: no topic)
StoredTopics(a, u) == IF u \in DOMAIN a THEN a[u].topics_of_interest ELSE EmptyFn

TopicCount(a, u, k) ==
    IF k \in DOMAIN StoredTopics(a, u) THEN StoredTopics(a, u)[k] ELSE 0

\* C20: the stored count of a topic never decreases, and every
\* analyze_and_update that commits, whatever ran concurrently with it, leaves
\* the stored counts at their value before the commit plus the counts of its
\* own message.
C20_TopicsMonotonic ==
    [][/\ \A u \in Users : \A k \in {"dev"} :
             TopicCount(ai', u, k) >= TopicCount(ai, u, k)
       /\ \A s \in Workers :
             (/\ aiTasks[s].pc = "loaded" /\ aiTasks'[s] # aiTasks[s]
              /\ aiDone'.valid /\ (aiDone' # aiDone \/ ai' # ai)) =>
                 StoredTopics(ai', aiTasks[s].user) =
                     MergeTopics(StoredTopics(ai, aiTasks[s].user),
                                 TopicsFromText(aiTasks[s].text))]_vars

\* the user_activity row of member u in the table a, zeros when absent
ActRow(a, u) ==
    IF u \in DOMAIN a THEN a[u]
    ELSE [message_count |-> 0, avg |-> <<0, 1>>, channel |-> "",
          reaction_count |-> 0, received_reactions |-> 0]

\* an event is delivered in this step and it is not a message: a reaction
ReactionDelivered ==
    /\ nEvents' = nEvents + 1
    /\ \A t \in Tasks : tasks'[t].kind = "msg" => tasks[t].kind = "msg"

\* C21: every reaction of a member on a message of a member is recorded: the
\* handler takes it up with the reactor's reaction_count one higher, and its
\* commit leaves reaction_count of the reactor and received_reactions of the
\* author one higher each (rows created from zeros, one row when reactor =
\* author) and every other field and row as it was.
C21_ReactionRecorded ==
    [][/\ ReactionDelivered =>
             \E t \in Tasks :
                 /\ tasks[t].kind = "idle" /\ tasks'[t].kind = "react"
                 /\ tasks'[t].pAct[tasks'[t].user].reaction_count =
                        ActRow(activity, tasks'[t].user).reaction_count + 1
       /\ \A t \in Tasks :
             (/\ tasks[t].kind = "react" /\ tasks[t].pc = "commit"
              /\ tasks'[t].kind = "idle" /\ activity' # activity) =>
                 LET r == tasks[t].user
                     a == tasks[t].other
                     one == [ActRow(activity, r) EXCEPT !.reaction_count = @ + 1]
                     both == [u \in {r, a} |->
                                IF u = a
                                THEN [(IF u = r THEN one ELSE ActRow(activity, a))
                                        EXCEPT !.received_reactions = @ + 1]
                                ELSE one]
                 IN activity' = Merge(activity, both)]_vars

\* the value of column f of the user_engagement row of u in table e, 0 without a row
EngField(e, u, f) == IF u \in DOMAIN e THEN e[u][f] ELSE 0

\* the number of occurrences of m in the list of mentions
Occurrences(ms, m) == Cardinality({i \in DOMAIN ms : ms[i] = m})

RECURSIVE SumField(_, _, _)
\* the sum of column f over the rows of the members in S
SumField(e, S, f) ==
    IF S = {} THEN 0
    ELSE LET u == CHOOSE x \in S : TRUE
         IN e[u][f] + SumField(e, S \ {u}, f)

\* process_message_engagement commits in this step
EngCommits ==
    /\ engTask.pc = "commit" /\ engTask'.pc = "idle"
    /\ (engagement' # engagement \/ engDone' # engDone \/ users' # users)

\* C22: a process_message_engagement that commits leaves mentions_made of the
\* author higher by the length of the list and mentions_received of every
\* member higher by its number of occurrences in the list, the author and the
\* mentioned members having a users row and an engagement row afterwards; and
\* in every state, after committed and failed calls alike, the sum of
\* mentions_made equals the sum of mentions_received.
C22_MentionsBalanced ==
    /\ [](SumField(engagement, DOMAIN engagement, "mentions_made") =
            SumField(engagement, DOMAIN engagement, "mentions_received"))
    /\ [][EngCommits =>
             LET a == engTask.author
                 ms == engTask.mentions
                 touched == {a} \cup {ms[i] : i \in DOMAIN ms}
             IN /\ touched \subseteq users'
                /\ touched \subseteq DOMAIN engagement'
                /\ DOMAIN engagement' = DOMAIN engagement \cup touched
                /\ \A u \in Users :
                      /\ EngField(engagement', u, "mentions_made") =
                            EngField(engagement, u, "mentions_made")
                              + (IF u = a THEN Len(ms) ELSE 0)
                      /\ EngField(engagement', u, "mentions_received") =
                            EngField(engagement, u, "mentions_received")
                              + Occurrences(ms, u)]_vars

\* two calls were made; member 2, who had no users row and no engagement row,
\* has been mentioned twice by member 1, who has also mentioned themself
C22_Witness ==
    /\ nEng = 2 /\ engTask.pc = "idle"
    /\ 1 \in DOMAIN engagement /\ 2 \in DOMAIN engagement /\ 2 \in users
    /\ engagement[1].mentions_made = 3
    /\ engagement[1].mentions_received = 1
    /\ engagement[2].mentions_received = 2
    /\ engagement[2].mentions_made = 0

\* C23: a process_message_engagement that commits leaves every column but
\* mentions_received of the row of each mentioned member other than the author
\* as it was (zeros for a row it creates): active_days_in_month, streak_days
\* and engagement_score of a mentioned member are not recomputed.
C23_MentionedMetricsKept ==
    [][EngCommits =>
         \A i \in DOMAIN engTask.mentions :
             LET m == engTask.mentions[i] IN
             m # engTask.author =>
                 \A f \in {"active_days_in_month", "streak_days", "engagement_score",
                            "mentions_made", "threads_created", "invitations_sent"} :
                     EngField(engagement', m, f) = EngField(engagement, m, f)]_vars

\* member 2 has a score of their own, and the call that committed last is one
\* of member 1 that mentions member 2
C23_Witness ==
    /\ nEng = 2 /\ engTask.pc = "idle"
    /\ engDone.valid /\ engDone.author = 1
    /\ 1 \in DOMAIN engagement /\ 2 \in DOMAIN engagement
    /\ engagement[1].mentions_made >= 1
    /\ engagement[2].mentions_received = engagement[1].mentions_made
    /\ engagement[2].engagement_score > 0
    /\ engagement[2].streak_days >= 1

\* C24: process_message_engagement is all or nothing. A call that ends before
\* its commit leaves the users table and the engagement table as they were;
\* the tables change only in the step in which a call ends, and then by all
\* the writes of that call at once; and a call that has ended, committed or
\* not, is not started again (the number of calls made does not change and the
\* handler is at rest).
C24_AllOrNothing ==
    [][/\ (engTask.pc \notin {"idle", "commit"} /\ engTask'.pc = "idle") =>
             /\ users' = users /\ engagement' = engagement
             /\ engTask' = IdleEng /\ nEng' = nEng
       /\ (engTask.pc # "idle" /\ engTask'.pc # "idle") =>
             users' = users /\ engagement' = engagement
       /\ (engTask.pc = "commit" /\ engTask'.pc = "idle") =>
             /\ \/ users' = users /\ engagement' = engagement
                \/ /\ users' = users \cup engTask.pUsers
                   /\ engagement' = Merge(engagement, engTask.pEng)
                   /\ engTask.author \in DOMAIN engTask.pEng
                   /\ \A i \in DOMAIN engTask.mentions :
                         engTask.mentions[i] \in DOMAIN engTask.pEng
             /\ engTask' = IdleEng /\ nEng' = nEng]_vars

\* two calls of member 1 have been made and have ended, neither has committed:
\* member 2 has no users row and the engagement table is empty
C24_Witness ==
    /\ nEng = 2 /\ engTask.pc = "idle" /\ ~engDone.valid
    /\ engagement = EmptyFn /\ users = {1} /\ nEvents = 0

\* the handler of a message ends in this step without having committed
MsgDropped ==
    /\ tasks[1].kind = "msg" /\ tasks'[1].kind = "idle"
    /\ committedMsgs' = committedMsgs

\* C25: when a statement of the transaction of a message fails (the activity
\* and daily counter upsert among them), no row of guilds, users, messages,
\* user_activity and user_message_daily is written, the handler ends there:
\* no content signal update is dispatched (USER_COOLDOWN is not set), no alert
\* check and no engagement call is made for the message, and the message is
\* not handled again.
C25_FailedEventDropped ==
    [][MsgDropped =>
         /\ UNCHANGED <<users, activity, daily, messages, guildRow>>
         /\ UNCHANGED <<aiTasks, nUpdates, userCooldown, dispatched, ai, aiDone>>
         /\ UNCHANGED <<engTask, nEng, engagement, engDone>>
         /\ UNCHANGED <<monitored, notifications, checkDone>>
         /\ tasks'[1] = IdleTask
         /\ nEvents' = nEvents]_vars

\* the first message was dropped at the activity upsert or at the commit and
\* a later message of the same member has been committed, dispatched and
\* followed by its engagement call: the store counts one message
C25_Witness ==
    /\ nEvents = 2 /\ tasks[1].kind = "idle"
    /\ committedMsgs[1] = 1
    /\ activity[1].message_count = 1
    /\ Len(dispatched[1]) = 1
    /\ nEng = 1 /\ engDone.valid

InsightStep ==
    \E s \in Workers :
        /\ aiTasks'[s] # aiTasks[s]
        /\ aiTasks[s].origin = "insight" \/ aiTasks'[s].origin = "insight"

\* C27: a command writes no aggregate: every step of the handling of !insight
\* leaves user_message_daily, user_activity, user_engagement and
\* user_ai_analysis as they were.
C27_CommandsWriteNoAggregate ==
    [][InsightStep => UNCHANGED <<daily, activity, engagement, ai>>]_vars

\* C28: every user_message_daily row has a count of at least 1, and from one
\* state to the next every row stays and its count does not decrease, with
\* concurrent handlers, failed transactions and changes of day.
C28_DailyCountGrows ==
    /\ [](\A k \in DOMAIN daily : daily[k] >= 1)
    /\ [][\A k \in DOMAIN daily : k \in DOMAIN daily' /\ daily'[k] >= daily[k]]_vars

\* member 1 has a counter of 2 for the first day and a counter for the second
\* day
C28_Witness ==
    /\ <<1, 1>> \in DOMAIN daily /\ daily[<<1, 1>>] = 2
    /\ <<1, 2>> \in DOMAIN daily /\ daily[<<1, 2>>] = 1

\* C29: the label of every classification is positive, neutral or negative
\* and agrees with the score of the same classification by the thresholds
\* (above 0.25 positive, below -0.25 negative, else neutral), whichever
\* backend produced it.
C29_LabelAgreesWithScore ==
    sentDone.valid =>
        /\ sentDone.label \in {"positive", "neutral", "negative"}
        /\ sentDone.label = LabelOf(sentDone.score)

\* check_toxicity_and_alert runs in this step for the message whose content
\* signal update worker s has run
AlertCheckRuns(s) == aiTasks[s].pc = "check" /\ aiTasks'[s].pc # "check"

\* C30: the steps of a message are applied in the order transaction, content
\* signal update, engagement recompute, alert check. The alert check runs
\* only for a message whose transaction has committed and whose content signal
\* update has returned, and the engagement call of the message has been made
\* before it: the handler does not go on to process_message_engagement when
\* the check returns.
C30_StepOrder ==
    [][\A s \in Workers :
         AlertCheckRuns(s) =>
             /\ aiTasks[s].origin = "message"
             /\ committedMsgs[aiTasks[s].user] >= 1
             /\ Len(dispatched[aiTasks[s].user]) >= 1
             /\ engTask' = engTask /\ nEng' = nEng]_vars

\* ----------------------------------------------------------------- claim C31
\* C31: in every step, last_alert of a watched member is set if and only if a
\* notification for that member reaches the notification sink in the same
\* step: the two-hour cooldown is never consumed without a notification.
C31_CooldownIffSent ==
    [][\A u \in Users :
         (/\ u \in DOMAIN monitored
          /\ monitored'[u].last_alert # monitored[u].last_alert)
           <=> notifications'[u] # notifications[u]]_vars

\* ----------------------------------------------------------------- claim C32
\* the sum of the counts of the user_message_daily rows of user u up to day d
RECURSIVE DailySum(_, _)
DailySum(u, d) ==
    IF d < 1 THEN 0
    ELSE (IF <<u, d>> \in DOMAIN daily THEN daily[<<u, d>>] ELSE 0) + DailySum(u, d - 1)

\* the number of rows of table messages among the keys rows
RECURSIVE RowCount(_)
RowCount(rows) ==
    IF rows = {} THEN 0
    ELSE LET r == CHOOSE x \in rows : TRUE IN messages[r] + RowCount(rows \ {r})

\* the number of stored Message rows of user u
MessageRows(u) == RowCount({r \in DOMAIN messages : r[1] = u})

\* C32: for every user, message_count of the user_activity row (0 without a
\* row) equals the sum over all days of the daily counts of the user and
\* equals the number of stored Message rows of the user, after any sequence
\* of message events, reaction events and rolled-back transactions.
C32_CountsAgree ==
    \A u \in Users :
        /\ ActField(u, "message_count") = DailySum(u, MaxDay)
        /\ ActField(u, "message_count") = MessageRows(u)

\* user 1 has two committed messages on different days, and the third event
\* (a reaction, or a message that was rolled back) has come and gone
C32_Witness ==
    /\ ActField(1, "message_count") = 2
    /\ <<1, 1>> \in DOMAIN daily /\ <<1, 2>> \in DOMAIN daily
    /\ MessageRows(1) = 2
    /\ nEvents = MaxEvents
    /\ \A t \in Tasks : tasks[t].kind = "idle"

\* ----------------------------------------------------------------- claim C33
\* C33: a key that is fresh in a TTL cache, so that upsert_user or
\* upsert_guild skips its write, has its row in the store or in the open
\* transaction of the handler that marked it: no key is left fresh by an
\* upsert whose transaction was rolled back.
C33_CacheCoherent ==
    /\ \A u \in userFresh : u \in users \/ \E t \in Tasks : u \in tasks[t].pUsers
    /\ guildFresh => (guildRow \/ \E t \in Tasks : tasks[t].pGuild)

\* ----------------------------------------------------------------- claim C34
\* MonitorSelect.callback commits for member u in this step
OptIn(u) ==
    /\ u \in DOMAIN monitored'
    /\ \/ u \notin DOMAIN monitored
       \/ watchDone' # watchDone /\ watchDone'.user = u

\* C34: an opt-in of a member who is not watched stores a row with threshold
\* 0.8, last_alert null and added_at now; an opt-in of a member who is
\* already watched writes the threshold and leaves last_alert and added_at of
\* the row as they were, so that a running cooldown is not re-armed.
C34_OptInKeepsCooldown ==
    [][\A u \in Users :
         OptIn(u) =>
            /\ monitored'[u].threshold = Tenths(8)
            /\ IF u \in DOMAIN monitored
               THEN /\ monitored'[u].last_alert = monitored[u].last_alert
                    /\ monitored'[u].added_at = monitored[u].added_at
               ELSE /\ monitored'[u].last_alert = NoAlert
                    /\ monitored'[u].added_at = clock]_vars

\* a member whose alert was sent less than two hours ago, and who was opted
\* in some time before, has just been opted in again
C34_Witness ==
    /\ watchDone.valid /\ watchDone.had /\ watchDone.cooling
    /\ monitored[watchDone.user].last_alert # NoAlert
    /\ monitored[watchDone.user].added_at < monitored[watchDone.user].last_alert
    /\ Len(notifications[watchDone.user]) >= 1

\* ----------------------------------------------------------------- claim C35
\* the day of the month of day d
DayOfMonth(d) == d - StartOfMonth(d) + 1

EngCalled == nEng' # nEng

\* the handler of a message of member u ends in this step without a database
\* error: its engagement call commits, or its alert check raises
HandlerEnds(u) ==
    \/ EngCommits /\ engTask.author = u
    \/ \E s \in Workers :
         /\ AlertCheckRuns(s) /\ aiTasks[s].user = u /\ aiTasks[s].origin = "message"
         /\ checkDone'.valid /\ checkDone'.raised

\* C36: the engagement call of a message is made only when the transaction
\* of the message has committed (the message is counted in message_count and
\* in the daily counter of today), and when the handler of a message ends,
\* the stored engagement_score of the author is at least 0.5 times the
\* number of messages of the author committed so far.
C36_RecomputeAfterCommit ==
    [][/\ EngCalled =>
            LET a == engTask'.author IN
            /\ \A t \in Tasks : tasks'[t].kind = "idle"
            /\ a \in DOMAIN activity' /\ activity'[a].message_count = committedMsgs'[a]
            /\ committedMsgs'[a] >= 1
            /\ <<a, today>> \in DOMAIN daily'
       /\ \A u \in Users :
            HandlerEnds(u) =>
                /\ u \in DOMAIN engagement'
                /\ engagement'[u].engagement_score >= 5 * committedMsgs'[u]]_vars

\* ------------------------------------------- voice (cptVoiceUtilisateur.py)
\* the voice channels of the guild
VoiceChannels == {"general", "gaming"}
\* number of voice events and of clock steps in the voice model
MaxVoiceEvents == 4
MaxVoiceTicks == 2

\* an upsert whose ON CONFLICT branch overwrites the totals with those of the
\* one session
UpsertUserVoiceReplace(view, u, channel_name, duration) ==
    [time_in_voice |-> duration, sessions_count |-> 1,
     last_voice_session |-> <<clock, duration>>,
     most_used_voice_channel |-> channel_name]

\* upsert_user_voice_add_session: the row of user_voice after the statement
UpsertUserVoiceAddSession(view, u, channel_name, duration) ==
    IF u \in DOMAIN view
    THEN [view[u] EXCEPT !.time_in_voice = @ + duration,
                         !.sessions_count = @ + 1,
                         !.last_voice_session = <<clock, duration>>,
                         !.most_used_voice_channel = channel_name]
    ELSE [time_in_voice |-> duration, sessions_count |-> 1,
          last_voice_session |-> <<clock, duration>>,
          most_used_voice_channel |-> channel_name]

\* active_sessions without key u (dict.pop)
Popped(sessions, u) == [x \in (DOMAIN sessions) \ {u} |-> sessions[x]]

\* on_voice_state_update(member u, before, after) with after.channel = to; the
\* handler has no await. db: every statement succeeds ("ok"), the commit of
\* upsert_guild / upsert_user raises ("first"), or the statement of
\* upsert_user_voice_add_session raises ("upsert"); SQLAlchemyError is caught
\* at the end of the handler.
OnVoiceStateUpdate(u, to) ==
    LET from == voiceState[u]
        joined == from = "none" /\ to # "none"
        left == from # "none" /\ to = "none"
        moved == from # "none" /\ to # "none" /\ from # to
        had == u \in DOMAIN activeSessions
        opened == Put(activeSessions, u, [start_time |-> clock, channel_name |-> to])
        closed == Put(voice, u,
                      UpsertUserVoiceAddSession(voice, u, activeSessions[u].channel_name,
                                                clock - activeSessions[u].start_time))
    IN
    /\ voiceDone.n < MaxVoiceEvents
    /\ from # "none" \/ to # "none"
    /\ voiceState' = [voiceState EXCEPT ![u] = to]
    /\ \E db \in {"ok", "first", "upsert"} :
         /\ db = "upsert" => (had /\ (left \/ moved))
         /\ voiceDone' = [n |-> voiceDone.n + 1, user |-> u, failed |-> db # "ok"]
         /\ IF db = "first"
            THEN UNCHANGED <<users, guildRow, activeSessions, voice>>
            ELSE /\ users' = users \cup {u}
                 /\ guildRow' = TRUE
                 /\ IF joined
                    THEN activeSessions' = opened /\ voice' = voice
                    ELSE IF left
                    THEN /\ activeSessions' = Popped(activeSessions, u)
                         /\ voice' = IF had /\ db = "ok" THEN closed ELSE voice
                    ELSE IF moved
                    THEN IF had /\ db = "upsert"
                         THEN UNCHANGED <<activeSessions, voice>>
                         ELSE /\ activeSessions' = opened
                              /\ voice' = IF had THEN closed ELSE voice
                    ELSE UNCHANGED <<activeSessions, voice>>
    /\ UNCHANGED <<activity, daily, messages, guildFresh, userFresh, tasks, nEvents, today,
                   histVars, engVars, sigVars, alertVars, viewVars, ingestVars, cmdVars>>

\* !vocreset: the session of the member is dropped from active_sessions
VocReset(u) ==
    /\ u \in DOMAIN activeSessions
    /\ activeSessions' = Popped(activeSessions, u)
    /\ UNCHANGED <<actVars, engVars, sigVars, alertVars, viewVars, ingestVars, cmdVars,
                   voiceState, voice, voiceDone>>

\* the process is restarted: active_sessions starts empty, the members stay
\* connected
VoiceRestart ==
    /\ activeSessions # EmptyFn
    /\ activeSessions' = EmptyFn
    /\ UNCHANGED <<actVars, engVars, sigVars, alertVars, viewVars, ingestVars, cmdVars,
                   voiceState, voice, voiceDone>>

VoiceInit ==
    /\ StoreInit
    /\ EngIdle
    /\ SigIdle
    /\ AlertIdle
    /\ ViewIdle
    /\ IngestIdle
    /\ VoiceIdle
    /\ CmdIdle

VoiceNext ==
    \/ \E u \in Users, to \in VoiceChannels \cup {"none"} : OnVoiceStateUpdate(u, to)
    \/ \E u \in Users : VocReset(u)
    \/ VoiceRestart
    \/ clock < MaxVoiceTicks * TickSeconds /\ Tick(TickSeconds)

SpecVoice == VoiceInit /\ [][VoiceNext]_vars

\* ----------------------------------------------------------------- claim C37
VoiceField(tbl, u, f) == IF u \in DOMAIN tbl THEN tbl[u][f] ELSE 0

\* on_voice_state_update runs for member u in this step and none of its
\* database statements fails
VoiceHandled(u) ==
    voiceDone'.n # voiceDone.n /\ voiceDone'.user = u /\ ~voiceDone'.failed

COMMAND_DEDUPE_MAX == 2
\* number of command messages and of deliveries in the model
MaxCmdIds == 4
MaxDeliveries == 5

\* the ids of a sequence
Ids(seq) == {seq[i] : i \in 1..Len(seq)}

\* a map that drops the id it has just inserted when it is full
\* (popitem(last=True))
MarkCommandSeenEvictNewest(d, msg_id) ==
    IF msg_id \in Ids(d) THEN <<d, FALSE>>
    ELSE LET a == Append(d, msg_id)
         IN <<IF Len(a) > COMMAND_DEDUPE_MAX THEN SubSeq(a, 1, Len(a) - 1) ELSE a, TRUE>>

\* _mark_command_seen: <<COMMAND_DEDUPE after the call, the value returned>>
MarkCommandSeen(d, msg_id) ==
    IF msg_id \in Ids(d) THEN <<d, FALSE>>
    ELSE LET a == Append(d, msg_id)
         IN <<IF Len(a) > COMMAND_DEDUPE_MAX THEN Tail(a) ELSE a, TRUE>>

\* the ids of the command messages delivered so far
Delivered == {cmdLog[i].id : i \in 1..Len(cmdLog)}

\* on_message with a message that resolves to a command: the command is
\* invoked if _mark_command_seen returns True, and the handler returns. The
\* message is new (ids grow) or one that was delivered before.
CmdDeliver(msg_id) ==
    LET r == MarkCommandSeen(dedupe, msg_id) IN
    /\ Len(cmdLog) < MaxDeliveries
    /\ msg_id \in Delivered \/ msg_id = Cardinality(Delivered) + 1
    /\ dedupe' = r[1]
    /\ cmdLog' = Append(cmdLog, [id |-> msg_id, invoked |-> r[2]])
    /\ UNCHANGED <<actVars, engVars, sigVars, alertVars, viewVars, ingestVars, voiceVars>>

\* Command messages are delivered, some of them more than once, between the
\* steps of the handler of ordinary messages.
CmdInit ==
    /\ StoreInit
    /\ EngIdle
    /\ SigIdle
    /\ AlertIdle
    /\ ViewIdle
    /\ IngestIdle
    /\ VoiceIdle
    /\ CmdIdle

CmdNext ==
    \/ \E msg_id \in 1..MaxCmdIds : CmdDeliver(msg_id)
    \/ ActOnly(MsgArrive(1) /\ tasks'[1].text \in ActTexts)
    \/ ActOnly(MsgUpsertUser(1))
    \/ ActOnly(MsgProcessNewMessage(1))
    \/ ActOnly(MsgCommit(1))

SpecCommand == CmdInit /\ [][CmdNext]_vars

\* ----------------------------------------------------------------- claim C38
\* the ids of the deliveries i+1 .. j-1 that were invoked
InvokedBetween(i, j) == {cmdLog[k].id : k \in {x \in (i + 1)..(j - 1) : cmdLog[x].invoked}}

\* the ids of the invoked deliveries, in order
InvokedIds ==
    LET inv == SelectSeq(cmdLog, LAMBDA e : e.invoked)
    IN [i \in 1..Len(inv) |-> inv[i].id]

\* the last n entries of a sequence
LastN(seq, n) == IF Len(seq) <= n THEN seq ELSE SubSeq(seq, Len(seq) - n + 1, Len(seq))

MaxFusionUpdates == 3
\* the stored levels at the start and the readings of the classifier: the
\* tenths from 0.0 to 1.0 (toxicity_hf and toxicity_openai clamp to [0, 1])
FusionReadings == {Tenths(k) : k \in 0..10}

\* analyze_and_update for a message of member u whose toxicity reading is tox
\* (AI_MODE "hf" or "openai"; the other signals come from the text), run
\* from its first statement to its commit with no other writer of the row
HostedUpdate(u, tox) ==
    LET row == ai[u]
        new == [Updated(row, "merci") EXCEPT
                  !.toxicity_level = ToxFusion(row.toxicity_level, tox)]
    IN
    /\ nUpdates < MaxFusionUpdates
    /\ u \in DOMAIN ai
    /\ nUpdates' = nUpdates + 1
    /\ ai' = Put(ai, u, new)
    /\ aiDone' = [valid |-> TRUE, user |-> u, origin |-> "message", created |-> FALSE,
                  isolated |-> TRUE, prev |-> row.toxicity_level, reading |-> tox]
    /\ UNCHANGED <<actVars, engVars, alertVars, viewVars, ingestVars, voiceVars, cmdVars,
                   aiTasks, rebuild, nRebuilds, userCooldown, rebuildDone>>

\* Member 1 has a row of user_ai_analysis with any level (or none yet: NULL).
FusionInit ==
    /\ StoreInit
    /\ users = {1}
    /\ EngIdle
    /\ aiTasks = [s \in AiSlots |-> IdleAi]
    /\ rebuild = IdleRebuild
    /\ nUpdates = 0
    /\ nRebuilds = 0
    /\ userCooldown = EmptyFn
    /\ aiDone = NoAiDone
    /\ rebuildDone = NoRebuildDone
    /\ \E level \in FusionReadings \cup {NullLevel} :
         ai = [u \in {1} |-> [DefaultAi EXCEPT !.toxicity_level = level]]
    /\ AlertIdle
    /\ ViewIdle
    /\ IngestIdle
    /\ VoiceIdle
    /\ CmdIdle

FusionNext ==
    \/ \E tox \in FusionReadings : HostedUpdate(1, tox)

SpecFusion == FusionInit /\ [][FusionNext]_vars

\* ----------------------------------------------------------------- claim C39
\* C39: with previous level p and reading n in [0, 1], the level stored by an
\* update is at least n and at most 1 when n > p, lies within [n, p] when
\* n <= p, and is p when n = p; an update with reading c of a level that is
\* at least c stores a level that is at least c.
C39_SmoothingBounds ==
    /\ [](aiDone.valid =>
            LET p == PrevTox(aiDone.prev)
                n == aiDone.reading
                stored == ai[aiDone.user].toxicity_level
            IN /\ n > p => (n <= stored /\ stored <= TOX_ONE)
               /\ n <= p => (n <= stored /\ stored <= p)
               /\ n = p => stored = p)
    /\ [][\A u \in DOMAIN ai :
            (/\ aiDone'.valid /\ aiDone'.user = u /\ nUpdates' # nUpdates
             /\ PrevTox(ai[u].toxicity_level) >= aiDone'.reading)
               => ai'[u].toxicity_level >= aiDone'.reading]_vars

\* the last of three updates read more than the level that was stored, and
\* stored a level above the reading and below 1
C39_Witness ==
    /\ nUpdates = MaxFusionUpdates /\ aiDone.valid
    /\ aiDone.reading > PrevTox(aiDone.prev)
    /\ PrevTox(aiDone.prev) > 0
    /\ ai[aiDone.user].toxicity_level > aiDone.reading
    /\ ai[aiDone.user].toxicity_level < TOX_ONE
====
